---- MODULE Spec2Model ----
(***************************************************************************)
(* Model of generate_sharing_links.py: main()'s per-file pipeline          *)
(* (ensure_folder_path -> upload_file -> create_sharing_link -> record),   *)
(* run against a remote hierarchical store that answers every request.     *)
(* Strings that the code splits and joins are sequences of one-character   *)
(* strings; folder ids are naturals (ROOT stands for the id "root").       *)
(***************************************************************************)
EXTENDS Integers, Sequences, FiniteSets, TLC

\* ---------------------------------------------------------------- bounds
MaxFiles == 2          \* files in one batch
MaxChunks == 3         \* largest number of whole chunks in a modelled size
MaxExternal == 1       \* folder creations by other clients of the store
MaxSmallSize == 7      \* PartSpec: payload sizes 0..MaxSmallSize
MaxSmallChunk == 4     \* PartSpec: chunk sizes 1..MaxSmallChunk
MaxCalls == 3          \* ClientSpec: calls of get, post and put on one client
MaxListed == 2         \* ManifestSpec: entries of one directory listing

\* ------------------------------------------------------ program constants
THRESHOLD == 4 * 1024 * 1024
CHUNK_SIZE == 3276800
ROOT == 0
None == -1
NoData == "None"
NoUrl == "None"
NoLink == "None"

\* EXC stands, in the place of a status, for a request that raised an
\* exception in the transport instead of returning a response
EXC == 0
LookupStatuses == {200, 404, 500}
CreateStatuses == {201, 409, 500}
SessionStatuses == {200, 201, 500}
PutStatuses == {200, 201, 202, 500}
LinkStatuses == {201, 500}
Descriptors == {"f1", "f2"}
NoBody == "other"
\* the body of a response: an item descriptor under 200 and 201 only
BodiesFor(status) == IF status \in {200, 201} THEN Descriptors ELSE {NoBody}
SessionUrls == {"https://up/s1", "", NoUrl}

\* ----------------------------------------------------------------- inputs
\* folder_path strings handed to ensure_folder_path
FolderPaths ==
    { <<>>,
      <<"a">>,
      <<"a", "/", "b">>,
      <<"/", "a", "/", "/", "b", "/">>,
      <<"/">> }

\* sizes of the local files (len(file_content))
FileSizes ==
    {0, THRESHOLD - 1, THRESHOLD}
      \cup { k * CHUNK_SIZE + d : k \in 2..MaxChunks, d \in {0, 1} }

\* ------------------------------------------------------- pure helpers
Min(a, b) == IF a < b THEN a ELSE b

RECURSIVE LStrip(_)
LStrip(s) == IF s # <<>> /\ Head(s) = "/" THEN LStrip(Tail(s)) ELSE s

RECURSIVE RStrip(_)
RStrip(s) ==
    IF s # <<>> /\ s[Len(s)] = "/" THEN RStrip(SubSeq(s, 1, Len(s) - 1)) ELSE s

\* str.strip("/")
Strip(s) == RStrip(LStrip(s))

RECURSIVE SplitAcc(_, _, _)
SplitAcc(s, cur, acc) ==
    IF s = <<>> THEN Append(acc, cur)
    ELSE IF Head(s) = "/" THEN SplitAcc(Tail(s), <<>>, Append(acc, cur))
    ELSE SplitAcc(Tail(s), Append(cur, Head(s)), acc)

\* str.split("/")
Split(s) == SplitAcc(s, <<>>, <<>>)

\* path_parts = folder_path.strip("/").split("/")
PathParts(folder_path) == Split(Strip(folder_path))

\* variant: the separator is put in front of the first part too
JoinPath_slash(current_path, part) == current_path \o <<"/">> \o part

\* current_path = f"{current_path}/{part}" if current_path else part
JoinPath(current_path, part) ==
    IF current_path # <<>> THEN current_path \o <<"/">> \o part ELSE part

\* variant: no part counts as empty
IsEmptyPart_never(part) == FALSE

\* if not part: continue
IsEmptyPart(part) == part = <<>>

\* variant: a lookup that fails is taken for a folder that is missing
LookupBranch_errcreate(status) ==
    IF status = 200 THEN "exists" ELSE "create"

\* what the resolver does with the answer to its lookup GET
LookupBranch(status) ==
    IF status = 200 THEN "exists"
    ELSE IF status = 404 THEN "create"
    ELSE "error"

\* create_sharing_link: the download link under 201, None otherwise
LinkFor(status) == IF status = 201 THEN "dl" ELSE NoLink

\* variant: the file is recorded without a link too
RecordIt_always(link) == TRUE

\* main, lines 503-515: the file is recorded unless `not sharing_link`
RecordIt(link) == link # NoLink

\* variant: the id of the folder found is not taken over
AdoptLookup_keep(current, found) == current

\* current_id = folder_data["id"] after a 200 lookup
AdoptLookup(current, found) == found

\* variant: the id of the folder created is not taken over
AdoptCreate_keep(current, created) == current

\* current_id = folder_data["id"] after a 201 create
AdoptCreate(current, created) == created

\* create_response.status_code == 201
CreateAccepted(status) == status = 201

\* variant: no file takes the simple upload
UseSimpleUpload_never(size) == FALSE

\* variant: the threshold itself still takes the simple upload
UseSimpleUpload_le(size) == size <= THRESHOLD

\* if file_size < 4 * 1024 * 1024
UseSimpleUpload(size) == size < THRESHOLD

\* variant: 202 is taken for success too
DirectOk_202(status) == status \in {200, 201, 202}

\* upload_response.status_code in (200, 201)
DirectOk(status) == status \in {200, 201}

\* variant: any 2xx answer opens the session
SessionRejected_2xx(status) == status \notin {200, 201}

\* session_response.status_code != 200
SessionRejected(status) == status # 200

\* variant: only an absent field is noticed, an empty URL is not
UrlMissing_absent(url) == url = NoUrl

\* not upload_url
UrlMissing(url) == url = NoUrl \/ url = ""

\* variant: floor plus one instead of the ceiling
TotalChunks_floor1(size, cs) == size \div cs + 1

\* total_chunks = (file_size + CHUNK_SIZE - 1) // CHUNK_SIZE
TotalChunks(size, cs) == (size + cs - 1) \div cs

\* start_byte = chunk_num * CHUNK_SIZE
StartByte(k, cs) == k * cs

\* variant: the end offset one byte too far
EndByte_off(start, size, cs) == Min(start + cs, size - 1)

\* end_byte = min(start_byte + CHUNK_SIZE - 1, file_size - 1)
EndByte(start, size, cs) == Min(start + cs - 1, size - 1)

\* variant: the length is taken as the difference of the offsets
ContentLength_off(start, end) == end - start

\* content_length = end_byte - start_byte + 1
ContentLength(start, end) == end - start + 1

\* file.seek(start_byte); file.read(content_length): the number of bytes
\* read from a file that holds `disk` bytes
BytesRead(start, n, disk) ==
    IF disk - start <= 0 THEN 0 ELSE Min(n, disk - start)

\* "Content-Range": f"bytes {start_byte}-{end_byte}/{file_size}"
ContentRange(start, end, size) == << "bytes", start, end, size >>

\* variant: the loop stays on the chunk it has just sent
NextChunk_same(k) == k

\* for chunk_num in range(total_chunks): the next value of chunk_num
NextChunk(k) == k + 1

\* variant: the except clause returns a descriptor
ExceptionResult_ok == "f1"

\* lines 256-258: what upload_file returns when an exception was raised
ExceptionResult == NoData

\* variant: the chunk goes to the content endpoint of the API
ChunkUrl_base(upload_url) == "content"

\* requests.put(upload_url, ...): the URL a chunk is PUT to
ChunkUrl(upload_url) == upload_url

\* variant: falling out of the loop counts as success
ExhaustedResult_ok == "f1"

\* lines 252-254: what upload_file returns when the loop runs out
ExhaustedResult == NoData

\* variants of the ladder: 200 taken for "more"; 201 taken for "more";
\* an unhandled status taken for "more"; 202 taken for "complete"
ChunkBranch_200more(status) ==
    IF status \in {200, 201, 202}
    THEN IF status \in {200, 202} THEN "more" ELSE "complete"
    ELSE "error"

ChunkBranch_201more(status) ==
    IF status \in {200, 201, 202}
    THEN IF status \in {201, 202} THEN "more" ELSE "complete"
    ELSE "error"

ChunkBranch_errmore(status) ==
    IF status \in {200, 201} THEN "complete" ELSE "more"

ChunkBranch_202done(status) ==
    IF status \in {200, 201, 202} THEN "complete" ELSE "error"

\* the if/else ladder on the status of a chunk PUT
ChunkBranch(status) ==
    IF status \in {200, 201, 202}
    THEN IF status = 202 THEN "more" ELSE "complete"
    ELSE "error"

\* ------------------------------------------------------------------ state
VARIABLES
    pc,            \* where main() (or the function it is in) stands
    n_files,       \* len(simulation_files)
    dry_run,       \* args.dry_run
    file_idx,      \* how many iterations of main's for loop have begun
    remote,        \* the remote namespace: a set of [path, id] folder nodes
    next_id,       \* the next id the remote store hands out
    ext_count,     \* folders created so far by other clients
    folder_path,   \* ensure_folder_path: its argument
    path_parts,    \* ensure_folder_path: path_parts
    part_idx,      \* ensure_folder_path: position of the for loop
    current_path,  \* ensure_folder_path: current_path
    current_id,    \* ensure_folder_path: current_id
    rreqs,         \* requests issued by the current ensure_folder_path call
    ext_at_call,   \* ext_count when the current ensure_folder_path call began
    r_ret,         \* the ensure_folder_path call of this iteration has returned
    seen,          \* per folder path, what the earlier calls on it returned,
                   \* no folder having been created by another client since
                   \* the earliest of them began
    folder_id,     \* main: folder_id
    file_size,     \* upload_file: file_size
    chunk_size,    \* upload_file: CHUNK_SIZE (the local variable)
    total_chunks,  \* upload_file: total_chunks
    chunk_num,     \* upload_file: chunk_num
    upload_url,    \* upload_file: upload_url of the session
    reqs,          \* requests issued by the current upload_file call
    u_ret,         \* the upload_file call of this iteration has returned
    file_data,     \* main: file_data (what upload_file returned)
    results,       \* main: results["simulations"], as the set of recorded files
    saved,         \* the manifest was written
    sharing_link,  \* main: sharing_link (what create_sharing_link returned)
    disk_size,     \* the size the local file has now (it may have shrunk
                   \* since upload_file read it)
    q_pc,          \* a second ensure_folder_path call, run by another worker
    q_parts,       \*   against the same store: its path_parts,
    q_idx,         \*   the position of its for loop,
    q_path,        \*   its current_path,
    q_id,          \*   its current_id,
    q_reqs,        \*   the requests it issued
    q_result,      \*   and what it returned
    a_pc,          \* verify_download_links.main: where it stands
    a_idx,         \*   how many of TEST_FILE_SIZES it has begun
    a_size,        \*   file_info["size"] of the current test file
    a_puts,        \*   the content PUTs it issued
    a_tests,       \*   results["tests"], as the outcomes recorded
    c_headers,     \* GraphClient: self.headers
    c_log,         \* the requests sent by get, post and put of the client
                   \* and by upload_file to the session URL, with their headers
    m_pc,          \* main, followed for its manifest: where it stands
    m_files,       \*   simulation_files, as discover_simulation_files built it
    m_idx,         \*   how many iterations of the for loop have ended
    m_done,        \*   the positions of the files whose three steps succeeded
    m_results,     \*   results["simulations"], a map from key to entry
    m_saved,       \*   the manifest file was written
    m_out          \*   the "simulations" map of the manifest file

vars ==
    << pc, n_files, dry_run, file_idx, remote, next_id, ext_count,
       folder_path, path_parts, part_idx, current_path, current_id, rreqs,
       ext_at_call, r_ret, seen, folder_id, file_size, chunk_size, total_chunks, chunk_num,
       upload_url, reqs, u_ret, file_data, results, saved, sharing_link,
       disk_size,
       q_pc, q_parts, q_idx, q_path, q_id, q_reqs, q_result,
       a_pc, a_idx, a_size, a_puts, a_tests, c_headers, c_log,
       m_pc, m_files, m_idx, m_done, m_results, m_saved, m_out >>

resolveVars ==
    << folder_path, path_parts, part_idx, current_path, current_id, rreqs,
       ext_at_call >>

uploadVars ==
    << file_size, chunk_size, total_chunks, chunk_num, upload_url, reqs,
       u_ret, file_data, disk_size >>

secondVars == << q_pc, q_parts, q_idx, q_path, q_id, q_reqs, q_result >>

archiveVars == << a_pc, a_idx, a_size, a_puts, a_tests >>

clientVars == << c_headers, c_log >>

manifestVars == << m_pc, m_files, m_idx, m_done, m_results, m_saved, m_out >>

sideVars == << secondVars, archiveVars, clientVars, manifestVars >>

mainVars == << n_files, dry_run, file_idx, results, saved, sharing_link >>

remoteVars == << remote, next_id, ext_count >>

\* the folders that exist before the run: none, a, or a and a/b
InitRemotes ==
    { {},
      { [path |-> <<"a">>, id |-> 1] },
      { [path |-> <<"a">>, id |-> 1], [path |-> <<"a", "/", "b">>, id |-> 2] } }

\* paths at which another client may create a folder
ExternalPaths == { <<"a">>, <<"a", "/", "b">> }

\* a request of ensure_folder_path, as the remote store sees it
ResolveReq(kind, path, parent, name, status, got) ==
    [kind |-> kind, path |-> path, parent |-> parent, name |-> name,
     status |-> status, got |-> got]

\* a request of upload_file, as the remote store sees it
UploadReq(kind, url, folder, name, idx, range, len, sent, status, body) ==
    [kind |-> kind, url |-> url, folder |-> folder, name |-> name,
     idx |-> idx, range |-> range, len |-> len, sent |-> sent,
     status |-> status, body |-> body]

\* no second ensure_folder_path call is running
SecondIdle ==
    /\ q_pc = "idle"
    /\ q_parts = <<>>
    /\ q_idx = 1
    /\ q_path = <<>>
    /\ q_id = ROOT
    /\ q_reqs = <<>>
    /\ q_result = None

\* verify_download_links.py is not running
ArchiveIdle ==
    /\ a_pc = "idle"
    /\ a_idx = 0
    /\ a_size = -1
    /\ a_puts = <<>>
    /\ a_tests = <<>>

\* GraphClient.__init__, lines 66-72: the headers of a new client
BaseHeaders ==
    ("Authorization" :> "Bearer token") @@ ("Content-Type" :> "application/json")

\* the client has been constructed and has sent nothing
ClientIdle ==
    /\ c_headers = BaseHeaders
    /\ c_log = <<>>

\* main is not followed for its manifest
ManifestIdle ==
    /\ m_pc = "idle"
    /\ m_files = <<>>
    /\ m_idx = 0
    /\ m_done = {}
    /\ m_results = <<>>
    /\ m_saved = FALSE
    /\ m_out = <<>>

SideIdle == SecondIdle /\ ArchiveIdle /\ ClientIdle /\ ManifestIdle

Init ==
    /\ SideIdle
    /\ disk_size = -1
    /\ pc = "start"
    /\ n_files \in 0..MaxFiles
    /\ dry_run \in BOOLEAN
    /\ file_idx = 0
    /\ remote \in InitRemotes
    /\ next_id = 3
    /\ ext_count = 0
    /\ folder_path = <<>>
    /\ path_parts = <<>>
    /\ part_idx = 1
    /\ current_path = <<>>
    /\ current_id = ROOT
    /\ rreqs = <<>>
    /\ ext_at_call = 0
    /\ r_ret = FALSE
    /\ seen = [fp \in FolderPaths |-> {}]
    /\ folder_id = None
    /\ file_size = -1
    /\ chunk_size = 0
    /\ total_chunks = 0
    /\ chunk_num = 0
    /\ upload_url = NoUrl
    /\ reqs = <<>>
    /\ u_ret = FALSE
    /\ file_data = NoData
    /\ results = {}
    /\ saved = FALSE
    /\ sharing_link = NoLink

\* ------------------------------------------------------- the remote store
\* the node at a path, as a set (empty when there is none)
NodesAt(path) == { n \in remote : n.path = path }

\* the path of the child `name` of the node with id `parent`
ChildPath(parent, name) ==
    IF parent = ROOT THEN name
    ELSE LET p == CHOOSE n \in remote : n.id = parent
         IN  p.path \o <<"/">> \o name

ParentExists(parent) == parent = ROOT \/ \E n \in remote : n.id = parent

\* A folder appears at a path because another client created it.
ExternalCreate(path) ==
    /\ pc \in {"loop", "resolve", "create"}
    /\ ext_count < MaxExternal
    /\ NodesAt(path) = {}
    /\ \/ Len(path) = 1
       \/ NodesAt(SubSeq(path, 1, Len(path) - 2)) # {}
    /\ remote' = remote \cup { [path |-> path, id |-> next_id] }
    /\ next_id' = next_id + 1
    /\ ext_count' = ext_count + 1
    /\ seen' = [fp \in FolderPaths |-> {}]
    /\ UNCHANGED << pc, resolveVars, r_ret, folder_id, uploadVars, mainVars >>
    /\ UNCHANGED sideVars

\* ensure_folder_path has returned and main has moved on: its locals are gone
ResolveLocalsGone ==
    /\ seen' = IF r_ret /\ ext_at_call = ext_count
               THEN [seen EXCEPT ![folder_path] = @ \cup {folder_id}]
               ELSE seen
    /\ r_ret' = FALSE
    /\ folder_path' = <<>>
    /\ path_parts' = <<>>
    /\ part_idx' = 1
    /\ current_path' = <<>>
    /\ current_id' = ROOT
    /\ rreqs' = <<>>
    /\ ext_at_call' = 0

\* upload_file has returned and main has moved on: its locals are gone
UploadLocalsGone ==
    /\ file_size' = -1
    /\ chunk_size' = 0
    /\ total_chunks' = 0
    /\ chunk_num' = 0
    /\ upload_url' = NoUrl
    /\ reqs' = <<>>
    /\ disk_size' = -1

\* ------------------------------------------------------------------ main
\* variant: --dry-run is not looked at
ReturnsEarly_nodry(n, dry) == n = 0

\* main, lines 464-472: `if not simulation_files` and `if args.dry_run`
\* both return
ReturnsEarly(n, dry) == n = 0 \/ dry

\* main, lines 457-472: discovery found nothing, or --dry-run, or go on
MainStart ==
    /\ pc = "start"
    /\ pc' = IF ReturnsEarly(n_files, dry_run) THEN "done" ELSE "auth"
    /\ UNCHANGED << remoteVars, resolveVars, r_ret, seen, folder_id, uploadVars,
                    mainVars >>
    /\ UNCHANGED sideVars

\* main, lines 474-480: get_access_token either returns a token or raises,
\* and main's except clause then ends the run
Authenticate(ok) ==
    /\ pc = "auth"
    /\ pc' = IF ok THEN "loop" ELSE "done"
    /\ UNCHANGED << remoteVars, resolveVars, r_ret, seen, folder_id, uploadVars,
                    mainVars >>
    /\ UNCHANGED sideVars

\* main, line 483-486: the next simulation file; ensure_folder_path is
\* entered with its folder path (lines 105-107)
LoopNext(fp) ==
    /\ pc = "loop"
    /\ file_idx < n_files
    /\ file_idx' = file_idx + 1
    /\ seen' = IF r_ret /\ ext_at_call = ext_count
               THEN [seen EXCEPT ![folder_path] = @ \cup {folder_id}]
               ELSE seen
    /\ r_ret' = FALSE
    /\ folder_path' = fp
    /\ path_parts' = PathParts(fp)
    /\ part_idx' = 1
    /\ current_path' = <<>>
    /\ current_id' = ROOT
    /\ rreqs' = <<>>
    /\ ext_at_call' = ext_count
    /\ folder_id' = None
    /\ UploadLocalsGone
    /\ u_ret' = FALSE
    /\ file_data' = NoData
    /\ pc' = "resolve"
    /\ sharing_link' = NoLink
    /\ UNCHANGED << remoteVars, n_files, dry_run, results, saved >>
    /\ UNCHANGED sideVars

\* main, lines 519-527: the for loop is over, the manifest is written
SaveManifest ==
    /\ pc = "loop"
    /\ file_idx >= n_files
    /\ saved' = TRUE
    /\ pc' = "done"
    /\ ResolveLocalsGone
    /\ UploadLocalsGone
    /\ UNCHANGED << remoteVars, folder_id, u_ret, file_data,
                    n_files, dry_run, file_idx, results, sharing_link >>
    /\ UNCHANGED sideVars

\* ---------------------------------------------------- ensure_folder_path
\* the number of create calls in a request log
Creates(log) == Cardinality({ i \in 1..Len(log) : log[i].kind = "POST" })

\* the ids of the folders that the create calls of a request log made
CreatedIds(log) ==
    { log[i].got : i \in { j \in 1..Len(log) :
                              log[j].kind = "POST" /\ log[j].status = 201 } }

\* variant: a call that fails removes the folders it has created
LeftBehind_rollback(store, created) == { n \in store : n.id \notin created }

\* lines 141-152: a call that fails returns at once; the folders it has
\* created stay in the store
LeftBehind(store, created) == store

\* lines 110-111: an empty part is skipped
SegSkip ==
    /\ pc = "resolve"
    /\ part_idx <= Len(path_parts)
    /\ IsEmptyPart(path_parts[part_idx])
    /\ part_idx' = part_idx + 1
    /\ UNCHANGED << pc, remoteVars, folder_path, path_parts, current_path,
                    current_id, rreqs, ext_at_call, r_ret, seen, folder_id,
                    uploadVars, mainVars >>
    /\ UNCHANGED sideVars

\* lines 113-128 and 149-152: the lookup GET of the next part and what the
\* code does with its answer.  The store answers 200 only for a path that
\* exists and 404 only for one that does not; it may fail with another
\* status, and the transport may raise (main's except clause ends the run).
SegLookup(status) ==
    /\ pc = "resolve"
    /\ part_idx <= Len(path_parts)
    /\ ~IsEmptyPart(path_parts[part_idx])
    /\ LET part == path_parts[part_idx]
           cp == JoinPath(current_path, part)
           found == IF status = 200
                    THEN (CHOOSE n \in NodesAt(cp) : TRUE).id ELSE None
           log == Append(rreqs, ResolveReq("GET", cp, current_id, part, status,
                                           found))
       IN  /\ status = 200 => NodesAt(cp) # {}
           /\ status = 404 => NodesAt(cp) = {}
           /\ current_path' = cp
           /\ rreqs' = log
           /\ IF status = EXC
              THEN /\ pc' = "done"
                   /\ UNCHANGED << part_idx, current_id, r_ret, folder_id >>
              ELSE IF LookupBranch(status) = "exists"
              THEN /\ current_id' = AdoptLookup(current_id, found)
                   /\ part_idx' = part_idx + 1
                   /\ pc' = "resolve"
                   /\ UNCHANGED << r_ret, folder_id >>
              ELSE IF LookupBranch(status) = "create"
              THEN /\ pc' = "create"
                   /\ UNCHANGED << part_idx, current_id, r_ret, folder_id >>
              ELSE /\ r_ret' = TRUE
                   /\ folder_id' = None
                   /\ pc' = "loop"
                   /\ UNCHANGED << part_idx, current_id >>
    /\ remote' = IF status = EXC \/ LookupBranch(status) \notin {"exists", "create"}
                 THEN LeftBehind(remote, CreatedIds(rreqs))
                 ELSE remote
    /\ UNCHANGED << next_id, ext_count, folder_path, path_parts, ext_at_call,
                    seen, uploadVars, mainVars >>
    /\ UNCHANGED sideVars

\* lines 130-148: the create POST after a 404 and what the code does with
\* its answer.  kind says what the store did: "new" (no such child: it is
\* created), "keep" (the child exists and is returned), "swap" (the child
\* exists and is replaced by a new folder), "fail" (nothing changes; 409
\* is answered only when the child exists).
SegCreate(status, kind) ==
    /\ pc = "create"
    /\ LET part == path_parts[part_idx]
           cp == ChildPath(current_id, part)
           old == NodesAt(cp)
           newId == IF kind = "keep" THEN (CHOOSE n \in old : TRUE).id ELSE next_id
           log == Append(rreqs, ResolveReq("POST", cp, current_id, part, status,
                                           IF status = 201 THEN newId ELSE None))
       IN  /\ ParentExists(current_id)
           /\ kind = "new" => old = {} /\ status = 201
           /\ kind \in {"keep", "swap"} => old # {} /\ status = 201
           /\ kind = "fail" => status # 201 /\ (status = 409 => old # {})
           /\ remote' = LET store == IF kind \in {"new", "swap"}
                                     THEN (remote \ old)
                                            \cup { [path |-> cp, id |-> next_id] }
                                     ELSE remote
                        IN  IF status = EXC \/ ~CreateAccepted(status)
                            THEN LeftBehind(store, CreatedIds(rreqs))
                            ELSE store
           /\ next_id' = IF kind \in {"new", "swap"} THEN next_id + 1 ELSE next_id
           /\ rreqs' = log
           /\ IF status = EXC
              THEN /\ pc' = "done"
                   /\ UNCHANGED << part_idx, current_id, r_ret, folder_id >>
              ELSE IF CreateAccepted(status)
              THEN /\ current_id' = AdoptCreate(current_id, newId)
                   /\ part_idx' = part_idx + 1
                   /\ pc' = "resolve"
                   /\ UNCHANGED << r_ret, folder_id >>
              ELSE /\ r_ret' = TRUE
                   /\ folder_id' = None
                   /\ pc' = "loop"
                   /\ UNCHANGED << part_idx, current_id >>
    /\ UNCHANGED << ext_count, folder_path, path_parts, current_path,
                    ext_at_call, seen, uploadVars, mainVars >>
    /\ UNCHANGED sideVars

\* lines 154-155 and main 486-490: the parts are exhausted, current_id is
\* returned and main goes on to the upload
ResolveReturn ==
    /\ pc = "resolve"
    /\ part_idx > Len(path_parts)
    /\ r_ret' = TRUE
    /\ folder_id' = current_id
    /\ pc' = "upload"
    /\ UNCHANGED << remoteVars, resolveVars, seen, uploadVars, mainVars >>
    /\ UNCHANGED sideVars

\* -------------------------------------------------------------- upload_file
\* upload_file returns `data` to main, lines 494-498: without file data
\* main goes on to the next file, with it to the sharing link
Returned(data) ==
    /\ file_data' = data
    /\ u_ret' = TRUE
    /\ pc' = IF data = NoData THEN "loop" ELSE "link"

\* lines 162-170 and 190: the file is read and its size picks the branch;
\* a file that cannot be read raises, and upload_file returns None
UploadRead(size, readable) ==
    /\ pc = "upload"
    /\ IF readable
       THEN /\ file_size' = size
            /\ disk_size' = size
            /\ pc' = IF UseSimpleUpload(size) THEN "direct" ELSE "session"
            /\ UNCHANGED << u_ret, file_data >>
       ELSE /\ Returned(ExceptionResult)
            /\ UNCHANGED << file_size, disk_size >>
    /\ ResolveLocalsGone
    /\ UNCHANGED << remoteVars, folder_id, chunk_size,
                    total_chunks, chunk_num, upload_url, reqs, mainVars >>
    /\ UNCHANGED sideVars

\* the sizes of the local files that another process may shorten
ShrinkingSizes == { THRESHOLD }

\* The local file loses its last byte to another process after upload_file
\* has read it whole (line 164) and before the chunk loop has read it
\* again (lines 213-222).
FileTruncated ==
    /\ pc \in {"session", "chunks"}
    /\ file_size \in ShrinkingSizes
    /\ disk_size = file_size
    /\ disk_size' = file_size - 1
    /\ UNCHANGED << pc, remoteVars, resolveVars, r_ret, seen, folder_id,
                    file_size, chunk_size, total_chunks, chunk_num, upload_url,
                    reqs, u_ret, file_data, mainVars, sideVars >>

\* lines 171-187: the single content PUT of a small file
DirectPut(status, body) ==
    /\ pc = "direct"
    /\ reqs' = Append(reqs, UploadReq("PUT_content", "content", folder_id,
                                      file_idx, 0, <<>>, file_size, file_size,
                                      status, body))
    /\ IF status = EXC
       THEN Returned(ExceptionResult)
       ELSE IF DirectOk(status)
       THEN Returned(body)
       ELSE Returned(NoData)
    /\ UNCHANGED << remoteVars, resolveVars, r_ret, seen, folder_id, file_size,
                    chunk_size, total_chunks, chunk_num, upload_url, mainVars,
                    disk_size >>
    /\ UNCHANGED sideVars

\* lines 192-210: the session is opened; a rejected session or one without
\* an upload URL ends the upload, otherwise the chunk loop is set up
SessionOpen(status, url) ==
    /\ pc = "session"
    /\ reqs' = Append(reqs, UploadReq("POST_session", "createUploadSession",
                                      folder_id, file_idx, 0, <<>>, 0, 0,
                                      status, url))
    /\ IF status = EXC
       THEN /\ Returned(ExceptionResult)
            /\ UNCHANGED << chunk_size, total_chunks, chunk_num, upload_url >>
       ELSE IF SessionRejected(status) \/ UrlMissing(url)
       THEN /\ Returned(NoData)
            /\ UNCHANGED << chunk_size, total_chunks, chunk_num, upload_url >>
       ELSE /\ upload_url' = url
            /\ chunk_size' = CHUNK_SIZE
            /\ total_chunks' = TotalChunks(file_size, CHUNK_SIZE)
            /\ chunk_num' = 0
            /\ pc' = "chunks"
            /\ UNCHANGED << u_ret, file_data >>
    /\ UNCHANGED << remoteVars, resolveVars, r_ret, seen, folder_id, file_size,
                    mainVars, disk_size >>
    /\ UNCHANGED sideVars

\* lines 214-250: one iteration of the chunk loop: the range of chunk_num
\* is computed, the chunk is PUT to the session URL, and the status decides
ChunkPut(status, body) ==
    /\ pc = "chunks"
    /\ chunk_num < total_chunks
    /\ LET start_byte == StartByte(chunk_num, chunk_size)
           end_byte == EndByte(start_byte, file_size, chunk_size)
           content_length == ContentLength(start_byte, end_byte)
       IN  reqs' = Append(reqs, UploadReq("PUT_chunk", ChunkUrl(upload_url),
                                          None, 0, chunk_num,
                                          ContentRange(start_byte, end_byte,
                                                       file_size),
                                          content_length,
                                          BytesRead(start_byte, content_length,
                                                    disk_size),
                                          status, body))
    /\ IF status = EXC
       THEN /\ Returned(ExceptionResult)
            /\ UNCHANGED chunk_num
       ELSE IF ChunkBranch(status) = "error"
       THEN /\ Returned(NoData)
            /\ UNCHANGED chunk_num
       ELSE IF ChunkBranch(status) = "more"
       THEN /\ chunk_num' = NextChunk(chunk_num)
            /\ UNCHANGED << pc, u_ret, file_data >>
       ELSE /\ Returned(body)
            /\ UNCHANGED chunk_num
    /\ UNCHANGED << remoteVars, resolveVars, r_ret, seen, folder_id, file_size,
                    chunk_size, total_chunks, upload_url, mainVars, disk_size >>
    /\ UNCHANGED sideVars

\* lines 252-254: the loop ran out of chunks without a final answer
ChunkLoopExit ==
    /\ pc = "chunks"
    /\ chunk_num >= total_chunks
    /\ Returned(ExhaustedResult)
    /\ UNCHANGED << remoteVars, resolveVars, r_ret, seen, folder_id, file_size,
                    chunk_size, total_chunks, chunk_num, upload_url, reqs,
                    mainVars, disk_size >>
    /\ UNCHANGED sideVars

\* main, lines 500-517 (create_sharing_link, lines 260-290): the link is
\* created and the file recorded; without a link main goes on to the next
\* file; an exception of the transport ends the run in main's except clause
CreateLink(status) ==
    /\ pc = "link"
    /\ IF status = EXC
       THEN /\ pc' = "done"
            /\ UNCHANGED << results, sharing_link >>
       ELSE /\ sharing_link' = LinkFor(status)
            /\ results' = IF RecordIt(LinkFor(status))
                          THEN results \cup {file_idx} ELSE results
            /\ pc' = "loop"
    /\ UploadLocalsGone
    /\ UNCHANGED << remoteVars, resolveVars, r_ret, seen, folder_id, u_ret,
                    file_data, n_files, dry_run, file_idx, saved >>
    /\ UNCHANGED sideVars

\* ------------------------------------------------------------ specification
Next ==
    \/ MainStart
    \/ \E ok \in BOOLEAN : Authenticate(ok)
    \/ \E fp \in FolderPaths : LoopNext(fp)
    \/ SaveManifest
    \/ \E p \in ExternalPaths : ExternalCreate(p)
    \/ SegSkip
    \/ \E st \in LookupStatuses \cup {EXC} : SegLookup(st)
    \/ \E st \in CreateStatuses \cup {EXC}, k \in {"new", "keep", "swap", "fail"} :
          SegCreate(st, k)
    \/ ResolveReturn
    \/ \E size \in FileSizes, readable \in BOOLEAN : UploadRead(size, readable)
    \/ \E st \in PutStatuses \cup {EXC} : \E body \in BodiesFor(st) :
          DirectPut(st, body)
    \/ \E st \in SessionStatuses \cup {EXC}, url \in SessionUrls :
          SessionOpen(st, url)
    \/ \E st \in PutStatuses \cup {EXC} : \E body \in BodiesFor(st) :
          ChunkPut(st, body)
    \/ ChunkLoopExit
    \/ FileTruncated
    \/ \E st \in LinkStatuses \cup {EXC} : CreateLink(st)

Spec == Init /\ [][Next]_vars

\* The chunk loop on its own, entered with any payload size and chunk size:
\* the state is that of upload_file at line 212, the session being open.
ScenarioSize == 10 * 1024 * 1024

PartSizes ==
    { << s, c >> : s \in 0..MaxSmallSize, c \in 1..MaxSmallChunk }
      \cup { << s, CHUNK_SIZE >> : s \in { z \in FileSizes : ~UseSimpleUpload(z) } }
      \cup { << ScenarioSize, CHUNK_SIZE >> }

PartInit ==
    /\ SideIdle
    /\ pc = "chunks"
    /\ n_files = 1
    /\ dry_run = FALSE
    /\ file_idx = 1
    /\ remote = {}
    /\ next_id = 3
    /\ ext_count = 0
    /\ folder_path = <<>>
    /\ path_parts = << <<>> >>
    /\ part_idx = 2
    /\ current_path = <<>>
    /\ current_id = ROOT
    /\ rreqs = <<>>
    /\ ext_at_call = 0
    /\ r_ret = FALSE
    /\ seen = [fp \in FolderPaths |-> IF fp = <<>> THEN {ROOT} ELSE {}]
    /\ folder_id = ROOT
    /\ \E sc \in PartSizes :
          /\ file_size = sc[1]
          /\ disk_size = sc[1]
          /\ chunk_size = sc[2]
          /\ total_chunks = TotalChunks(sc[1], sc[2])
    /\ chunk_num = 0
    /\ upload_url = "https://up/s1"
    /\ reqs = << UploadReq("POST_session", "createUploadSession", ROOT, 1, 0,
                           <<>>, 0, 0, 200, "https://up/s1") >>
    /\ u_ret = FALSE
    /\ file_data = NoData
    /\ results = {}
    /\ saved = FALSE
    /\ sharing_link = NoLink

PartNext ==
    \/ \E st \in PutStatuses \cup {EXC} : \E body \in BodiesFor(st) :
          ChunkPut(st, body)
    \/ ChunkLoopExit

PartSpec == PartInit /\ [][PartNext]_vars

\* ------------------------------------------------- one upload_file call
\* upload_file has just been called (line 157) for the first file of a
\* batch of one, its folder being the root
UploadInit ==
    /\ SideIdle
    /\ pc = "upload"
    /\ n_files = 1
    /\ dry_run = FALSE
    /\ file_idx = 1
    /\ remote = {}
    /\ next_id = 3
    /\ ext_count = 0
    /\ folder_path = <<>>
    /\ path_parts = PathParts(<<>>)
    /\ part_idx = 2
    /\ current_path = <<>>
    /\ current_id = ROOT
    /\ rreqs = <<>>
    /\ ext_at_call = 0
    /\ r_ret = TRUE
    /\ seen = [fp \in FolderPaths |-> {}]
    /\ folder_id = ROOT
    /\ file_size = -1
    /\ disk_size = -1
    /\ chunk_size = 0
    /\ total_chunks = 0
    /\ chunk_num = 0
    /\ upload_url = NoUrl
    /\ reqs = <<>>
    /\ u_ret = FALSE
    /\ file_data = NoData
    /\ results = {}
    /\ saved = FALSE
    /\ sharing_link = NoLink

\* a statement of upload_file is executed
UploadStep ==
    \/ \E size \in FileSizes, readable \in BOOLEAN : UploadRead(size, readable)
    \/ \E st \in PutStatuses \cup {EXC} : \E body \in BodiesFor(st) :
          DirectPut(st, body)
    \/ \E st \in SessionStatuses \cup {EXC}, url \in SessionUrls :
          SessionOpen(st, url)
    \/ \E st \in PutStatuses \cup {EXC} : \E body \in BodiesFor(st) :
          ChunkPut(st, body)
    \/ ChunkLoopExit

UploadNext == UploadStep \/ FileTruncated

\* every request is answered or raises, so upload_file keeps running
\* until it returns
UploadLiveSpec == UploadInit /\ [][UploadNext]_vars /\ WF_vars(UploadStep)

\* the same call, for what holds of every state it passes through
UploadSpec == UploadInit /\ [][UploadNext]_vars

\* ------------------------------------ two ensure_folder_path calls at once
\* what the second call leaves alone
firstVars ==
    << pc, resolveVars, r_ret, seen, folder_id, uploadVars, mainVars,
       clientVars, manifestVars >>

\* what the second call leaves alone besides the first call's current_id
firstRest ==
    << pc, folder_path, path_parts, part_idx, current_path, rreqs,
       ext_at_call, r_ret, seen, folder_id, uploadVars, mainVars, clientVars,
       manifestVars >>

\* line 107: current_id is a local of each ensure_folder_path call, so the
\* first call's current_id is its own after a step of the other call
LocalCurrentId_global(own, other) == other
LocalCurrentId(own, other) == own

\* lines 110-111, second call
QSegSkip ==
    /\ q_pc = "resolve"
    /\ q_idx <= Len(q_parts)
    /\ IsEmptyPart(q_parts[q_idx])
    /\ q_idx' = q_idx + 1
    /\ UNCHANGED << q_pc, q_parts, q_path, q_id, q_reqs, q_result >>
    /\ UNCHANGED << firstVars, remoteVars, archiveVars >>

\* lines 113-128 and 149-152, second call
QSegLookup(status) ==
    /\ q_pc = "resolve"
    /\ q_idx <= Len(q_parts)
    /\ ~IsEmptyPart(q_parts[q_idx])
    /\ LET part == q_parts[q_idx]
           cp == JoinPath(q_path, part)
           found == IF status = 200
                    THEN (CHOOSE n \in NodesAt(cp) : TRUE).id ELSE None
       IN  /\ status = 200 => NodesAt(cp) # {}
           /\ status = 404 => NodesAt(cp) = {}
           /\ q_path' = cp
           /\ q_reqs' = Append(q_reqs, ResolveReq("GET", cp, q_id, part, status,
                                                  found))
           /\ IF status = EXC
              THEN /\ q_pc' = "raised"
                   /\ UNCHANGED << q_idx, q_id, q_result >>
              ELSE IF LookupBranch(status) = "exists"
              THEN /\ q_id' = AdoptLookup(q_id, found)
                   /\ q_idx' = q_idx + 1
                   /\ UNCHANGED << q_pc, q_result >>
              ELSE IF LookupBranch(status) = "create"
              THEN /\ q_pc' = "create"
                   /\ UNCHANGED << q_idx, q_id, q_result >>
              ELSE /\ q_pc' = "returned"
                   /\ q_result' = None
                   /\ UNCHANGED << q_idx, q_id >>
    /\ UNCHANGED q_parts
    /\ current_id' = LocalCurrentId(current_id, q_id')
    /\ UNCHANGED << firstRest, remoteVars, archiveVars >>

\* lines 130-148, second call
QSegCreate(status, kind) ==
    /\ q_pc = "create"
    /\ LET part == q_parts[q_idx]
           cp == ChildPath(q_id, part)
           old == NodesAt(cp)
           newId == IF kind = "keep" THEN (CHOOSE n \in old : TRUE).id ELSE next_id
       IN  /\ ParentExists(q_id)
           /\ kind = "new" => old = {} /\ status = 201
           /\ kind \in {"keep", "swap"} => old # {} /\ status = 201
           /\ kind = "fail" => status # 201 /\ (status = 409 => old # {})
           /\ remote' = IF kind \in {"new", "swap"}
                        THEN (remote \ old) \cup { [path |-> cp, id |-> next_id] }
                        ELSE remote
           /\ next_id' = IF kind \in {"new", "swap"} THEN next_id + 1 ELSE next_id
           /\ q_reqs' = Append(q_reqs, ResolveReq("POST", cp, q_id, part, status,
                                                  IF status = 201 THEN newId
                                                  ELSE None))
           /\ IF status = EXC
              THEN /\ q_pc' = "raised"
                   /\ UNCHANGED << q_idx, q_id, q_result >>
              ELSE IF CreateAccepted(status)
              THEN /\ q_id' = AdoptCreate(q_id, newId)
                   /\ q_idx' = q_idx + 1
                   /\ q_pc' = "resolve"
                   /\ UNCHANGED q_result
              ELSE /\ q_pc' = "returned"
                   /\ q_result' = None
                   /\ UNCHANGED << q_idx, q_id >>
    /\ UNCHANGED << q_parts, q_path, ext_count >>
    /\ current_id' = LocalCurrentId(current_id, q_id')
    /\ UNCHANGED << firstRest, archiveVars >>

\* line 155, second call
QReturn ==
    /\ q_pc = "resolve"
    /\ q_idx > Len(q_parts)
    /\ q_pc' = "returned"
    /\ q_result' = q_id
    /\ UNCHANGED << q_parts, q_idx, q_path, q_id, q_reqs >>
    /\ UNCHANGED << firstVars, remoteVars, archiveVars >>

\* the paths the two calls resolve: they share the segment a
RacePaths == { <<"a">>, <<"a", "/", "b">>, <<"/", "a", "/", "/", "b", "/">> }

\* both calls have just been entered (lines 105-107); the upload and main
\* play no part
RaceInit ==
    /\ ArchiveIdle
    /\ ClientIdle
    /\ ManifestIdle
    /\ pc = "resolve"
    /\ n_files = 1
    /\ dry_run = FALSE
    /\ file_idx = 1
    /\ remote \in InitRemotes
    /\ next_id = 3
    /\ ext_count = 0
    /\ folder_path \in RacePaths
    /\ path_parts = PathParts(folder_path)
    /\ part_idx = 1
    /\ current_path = <<>>
    /\ current_id = ROOT
    /\ rreqs = <<>>
    /\ ext_at_call = 0
    /\ r_ret = FALSE
    /\ seen = [fp \in FolderPaths |-> {}]
    /\ folder_id = None
    /\ file_size = -1
    /\ disk_size = -1
    /\ chunk_size = 0
    /\ total_chunks = 0
    /\ chunk_num = 0
    /\ upload_url = NoUrl
    /\ reqs = <<>>
    /\ u_ret = FALSE
    /\ file_data = NoData
    /\ results = {}
    /\ saved = FALSE
    /\ sharing_link = NoLink
    /\ q_pc = "resolve"
    /\ \E fp \in RacePaths : q_parts = PathParts(fp)
    /\ q_idx = 1
    /\ q_path = <<>>
    /\ q_id = ROOT
    /\ q_reqs = <<>>
    /\ q_result = None

\* the store is healthy: a lookup is answered 200 or 404, a create 201, or
\* 409 when the folder is there already
RaceNext ==
    \/ SegSkip
    \/ \E st \in {200, 404} : SegLookup(st)
    \/ \E k \in {"new", "keep", "swap"} : SegCreate(201, k)
    \/ SegCreate(409, "fail")
    \/ ResolveReturn
    \/ QSegSkip
    \/ \E st \in {200, 404} : QSegLookup(st)
    \/ \E k \in {"new", "keep", "swap"} : QSegCreate(201, k)
    \/ QSegCreate(409, "fail")
    \/ QReturn

RaceSpec == RaceInit /\ [][RaceNext]_vars

\* ------------------------------------------- two workers on different files
\* the sizes of the file the first worker uploads
PairSizes == { THRESHOLD - 1, THRESHOLD }

\* Two workers run the pipeline on two files against one store.  The first
\* is followed through ensure_folder_path and upload_file, the second
\* through ensure_folder_path, where it reads and changes the store; any
\* answer may come, and the transport may raise.
PairNext ==
    \/ SegSkip
    \/ \E st \in LookupStatuses \cup {EXC} : SegLookup(st)
    \/ \E st \in CreateStatuses \cup {EXC}, k \in {"new", "keep", "swap", "fail"} :
          SegCreate(st, k)
    \/ ResolveReturn
    \/ \E size \in PairSizes, readable \in BOOLEAN : UploadRead(size, readable)
    \/ \E st \in PutStatuses \cup {EXC} : \E body \in BodiesFor(st) :
          DirectPut(st, body)
    \/ \E st \in SessionStatuses \cup {EXC}, url \in SessionUrls :
          SessionOpen(st, url)
    \/ \E st \in PutStatuses \cup {EXC} : \E body \in BodiesFor(st) :
          ChunkPut(st, body)
    \/ ChunkLoopExit
    \/ QSegSkip
    \/ \E st \in LookupStatuses \cup {EXC} : QSegLookup(st)
    \/ \E st \in CreateStatuses \cup {EXC}, k \in {"new", "keep", "swap", "fail"} :
          QSegCreate(st, k)
    \/ QReturn

PairSpec == RaceInit /\ [][PairNext]_vars

\* ------------------------------------------------------------ GraphClient
\* dict.update: the entries of `o` are added to `h` or replace its own
Update(h, o) ==
    [k \in DOMAIN h \cup DOMAIN o |-> IF k \in DOMAIN o THEN o[k] ELSE h[k]]

\* del h[k]
Remove(h, k) == [x \in DOMAIN h \ {k} |-> h[x]]

\* put, lines 86-92: req_headers as the request carries them
PutHeaders(base, headers, has_content) ==
    LET req == IF headers # <<>> THEN Update(base, headers) ELSE base
    IN  IF /\ has_content
           /\ "Content-Type" \in DOMAIN req
           /\ req["Content-Type"] = "application/json"
        THEN Remove(req, "Content-Type")
        ELSE req

\* variant: put works on self.headers itself, not on a copy
HeadersAfterPut_shared(base, req) == req

\* put, line 86: req_headers is a copy, self.headers stays as it was
HeadersAfterPut(base, req) == base

\* the headers argument of a put call (<<>>: none given)
PerCallHeaders ==
    { <<>>,
      "Content-Type" :> "application/octet-stream",
      "Content-Type" :> "application/json",
      ("Content-Length" :> "10") @@ ("Content-Range" :> "bytes 0-9/10") }

\* what the calls of the client leave alone
nonClientVars ==
    << pc, remoteVars, resolveVars, r_ret, seen, folder_id, uploadVars,
       mainVars, secondVars, archiveVars, manifestVars >>

\* get, lines 74-77
ClientGet ==
    /\ Len(c_log) < MaxCalls
    /\ c_log' = Append(c_log, [method |-> "GET", to |-> "api", given |-> <<>>,
                               content |-> FALSE, headers |-> c_headers])
    /\ UNCHANGED << c_headers, nonClientVars >>

\* post, lines 79-82
ClientPost ==
    /\ Len(c_log) < MaxCalls
    /\ c_log' = Append(c_log, [method |-> "POST", to |-> "api", given |-> <<>>,
                               content |-> FALSE, headers |-> c_headers])
    /\ UNCHANGED << c_headers, nonClientVars >>

\* put, lines 84-98, with the headers given and a body that is binary
\* content (truthy) or JSON data
ClientPut(headers, has_content) ==
    /\ Len(c_log) < MaxCalls
    /\ LET req == PutHeaders(c_headers, headers, has_content)
       IN  /\ c_log' = Append(c_log, [method |-> "PUT", to |-> "api",
                                      given |-> headers,
                                      content |-> has_content, headers |-> req])
           /\ c_headers' = HeadersAfterPut(c_headers, req)
    /\ UNCHANGED nonClientVars

\* upload_file, lines 224-227: the headers dict of a chunk
RangeHeaders ==
    ("Content-Length" :> "10") @@ ("Content-Range" :> "bytes 0-9/10")

\* variant: the chunk is sent with the client's headers added
ChunkHeaders_client(base, own) == Update(base, own)

\* upload_file, line 234: requests.put is called with the chunk's own
\* headers, the client and its headers are not used
ChunkHeaders(base, own) == own

\* upload_file, line 234: a chunk is PUT to the session URL
SessionPut ==
    /\ Len(c_log) < MaxCalls
    /\ c_log' = Append(c_log, [method |-> "PUT", to |-> "session",
                               given |-> RangeHeaders, content |-> TRUE,
                               headers |-> ChunkHeaders(c_headers, RangeHeaders)])
    /\ UNCHANGED << c_headers, nonClientVars >>

\* get_graph_client has returned a client; the generator is not running
ClientInit ==
    /\ SecondIdle
    /\ ArchiveIdle
    /\ ClientIdle
    /\ ManifestIdle
    /\ pc = "done"
    /\ n_files = 0
    /\ dry_run = FALSE
    /\ file_idx = 0
    /\ remote = {}
    /\ next_id = 3
    /\ ext_count = 0
    /\ folder_path = <<>>
    /\ path_parts = <<>>
    /\ part_idx = 1
    /\ current_path = <<>>
    /\ current_id = ROOT
    /\ rreqs = <<>>
    /\ ext_at_call = 0
    /\ r_ret = FALSE
    /\ seen = [fp \in FolderPaths |-> {}]
    /\ folder_id = None
    /\ file_size = -1
    /\ disk_size = -1
    /\ chunk_size = 0
    /\ total_chunks = 0
    /\ chunk_num = 0
    /\ upload_url = NoUrl
    /\ reqs = <<>>
    /\ u_ret = FALSE
    /\ file_data = NoData
    /\ results = {}
    /\ saved = FALSE
    /\ sharing_link = NoLink

ClientNext ==
    \/ ClientGet
    \/ ClientPost
    \/ \E h \in PerCallHeaders, c \in BOOLEAN : ClientPut(h, c)
    \/ SessionPut

ClientSpec == ClientInit /\ [][ClientNext]_vars

\* ------------------------------------------------- main and its manifest
\* File names are sequences of pieces, "_" being a piece of its own, with
\* the extension apart: C1_base.Rdata is the stem <<"C1", "_", "base">>
\* with the extension "Rdata".

\* what os.listdir may find in <base_dir>/base
BaseItems ==
    { [stem |-> <<"C1", "_", "base">>, ext |-> "Rdata"],
      [stem |-> <<"C1", "_", "v2">>, ext |-> "Rdata"],
      [stem |-> <<"notes">>, ext |-> "txt"] }

\* what os.listdir may find in <base_dir>/prerun/C1
PrerunItems ==
    { [stem |-> <<"base">>, ext |-> "Rdata"],
      [stem |-> <<"s1">>, ext |-> "Rdata"] }

\* the listings of a directory: its entries in any order, without repeats
Listings(items) ==
    { l \in UNION { [1..n -> items] : n \in 0..MaxListed } :
        \A i, j \in 1..Len(l) : i # j => l[i] # l[j] }

\* item.split("_")[0]
RECURSIVE FirstField(_)
FirstField(s) ==
    IF s = <<>> \/ Head(s) = "_" THEN <<>>
    ELSE << Head(s) >> \o FirstField(Tail(s))

\* item.endswith(".Rdata")
IsRdata(item) == item.ext = "Rdata"

\* lines 349-364: the record of a file of <base_dir>/base
BaseSim(item) ==
    [location |-> FirstField(item.stem), scenario |-> <<"base">>,
     relative_path |-> << "base", <<>>, item >>]

\* lines 367-385: the record of a file of <base_dir>/prerun/<location>;
\* the scenario is os.path.splitext(item)[0]
PrerunSim(location, item) ==
    [location |-> location, scenario |-> item.stem,
     relative_path |-> << "prerun", location, item >>]

\* discover_simulation_files for a base_dir that holds base and prerun/C1,
\* no location or scenario filter being given
Discover(base_listing, prerun_listing) ==
    LET b == SelectSeq(base_listing, IsRdata)
        q == SelectSeq(prerun_listing, IsRdata)
    IN  [i \in 1..Len(b) |-> BaseSim(b[i])]
          \o [i \in 1..Len(q) |-> PrerunSim(<<"C1">>, q[i])]

\* line 508: key = f"{sim['location']}_{sim['scenario']}"
Key(sim) == sim.location \o <<"_">> \o sim.scenario

\* lines 510-515: the entry of a file
Entry(sim) ==
    [location |-> sim.location, scenario |-> sim.scenario,
     filename |-> sim.relative_path, sharing_link |-> "dl"]

\* results["simulations"][key] = entry
Put(map, key, entry) ==
    [k \in DOMAIN map \cup {key} |-> IF k = key THEN entry ELSE map[k]]

\* what the steps of main leave alone when it is followed for its manifest
nonManifestVars ==
    << pc, remoteVars, resolveVars, r_ret, seen, folder_id, uploadVars,
       mainVars, secondVars, archiveVars, clientVars >>

\* lines 464-466: without files main returns at once
ManifestStart ==
    /\ m_pc = "start"
    /\ m_pc' = IF m_files = <<>> THEN "done" ELSE "loop"
    /\ UNCHANGED << m_files, m_idx, m_done, m_results, m_saved, m_out >>
    /\ UNCHANGED nonManifestVars

\* lines 483-517: one iteration of the for loop; the three steps succeed
\* and the entry is stored under the key (lines 508-515), or one of them
\* fails and main goes on (continue)
ManifestFile(ok) ==
    /\ m_pc = "loop"
    /\ m_idx < Len(m_files)
    /\ m_idx' = m_idx + 1
    /\ LET sim == m_files[m_idx + 1]
       IN  IF ok
           THEN /\ m_results' = Put(m_results, Key(sim), Entry(sim))
                /\ m_done' = m_done \cup {m_idx + 1}
           ELSE UNCHANGED << m_results, m_done >>
    /\ UNCHANGED << m_pc, m_files, m_saved, m_out >>
    /\ UNCHANGED nonManifestVars

\* lines 529-530: an exception ends the run, nothing is written
ManifestRaise ==
    /\ m_pc = "loop"
    /\ m_idx < Len(m_files)
    /\ m_pc' = "done"
    /\ UNCHANGED << m_files, m_idx, m_done, m_results, m_saved, m_out >>
    /\ UNCHANGED nonManifestVars

\* lines 519-524: the loop is over, results is dumped to the output file
ManifestSave ==
    /\ m_pc = "loop"
    /\ m_idx = Len(m_files)
    /\ m_out' = m_results
    /\ m_saved' = TRUE
    /\ m_pc' = "done"
    /\ UNCHANGED << m_files, m_idx, m_done, m_results >>
    /\ UNCHANGED nonManifestVars

\* main has discovered its files (lines 457-461)
ManifestInit ==
    /\ SecondIdle
    /\ ArchiveIdle
    /\ ClientIdle
    /\ pc = "done"
    /\ n_files = 0
    /\ dry_run = FALSE
    /\ file_idx = 0
    /\ remote = {}
    /\ next_id = 3
    /\ ext_count = 0
    /\ folder_path = <<>>
    /\ path_parts = <<>>
    /\ part_idx = 1
    /\ current_path = <<>>
    /\ current_id = ROOT
    /\ rreqs = <<>>
    /\ ext_at_call = 0
    /\ r_ret = FALSE
    /\ seen = [fp \in FolderPaths |-> {}]
    /\ folder_id = None
    /\ file_size = -1
    /\ disk_size = -1
    /\ chunk_size = 0
    /\ total_chunks = 0
    /\ chunk_num = 0
    /\ upload_url = NoUrl
    /\ reqs = <<>>
    /\ u_ret = FALSE
    /\ file_data = NoData
    /\ results = {}
    /\ saved = FALSE
    /\ sharing_link = NoLink
    /\ m_pc = "start"
    /\ \E bl \in Listings(BaseItems), pl \in Listings(PrerunItems) :
          m_files = Discover(bl, pl)
    /\ m_idx = 0
    /\ m_done = {}
    /\ m_results = <<>>
    /\ m_saved = FALSE
    /\ m_out = <<>>

ManifestNext ==
    \/ ManifestStart
    \/ \E ok \in BOOLEAN : ManifestFile(ok)
    \/ ManifestRaise
    \/ ManifestSave

ManifestSpec == ManifestInit /\ [][ManifestNext]_vars

\* ------------------------------- .archive/onedrive_tests/verify_download_links.py
\* TEST_FILE_SIZES = [10, 100, 1000, 10000], in KB
TEST_FILE_SIZES == << 10, 100, 1000, 10000 >>

\* create_test_file: the header and then size_kb * 1024 - len(header) bytes
TestFileBytes(size_kb) == size_kb * 1024

\* upload_response.status_code in (200, 201)
TestUploadOk(status) == status \in {200, 201}

\* what verify_download_links.main leaves alone
generatorVars ==
    << pc, remoteVars, resolveVars, r_ret, seen, folder_id, uploadVars,
       mainVars, secondVars, clientVars, manifestVars >>

\* main: get_access_token returns a token or raises
ArchiveAuth(ok) ==
    /\ a_pc = "auth"
    /\ a_pc' = IF ok THEN "folder" ELSE "done"
    /\ UNCHANGED << a_idx, a_size, a_puts, a_tests, generatorVars >>

\* main: the test folder is resolved, or main returns
ArchiveFolder(ok) ==
    /\ a_pc = "folder"
    /\ a_pc' = IF ok THEN "loop" ELSE "done"
    /\ UNCHANGED << a_idx, a_size, a_puts, a_tests, generatorVars >>

\* main: the next size of TEST_FILE_SIZES; create_test_file writes the file
\* and reads it back, or fails and the size is skipped
ArchiveCreateFile(ok) ==
    /\ a_pc = "loop"
    /\ a_idx < Len(TEST_FILE_SIZES)
    /\ a_idx' = a_idx + 1
    /\ IF ok
       THEN /\ a_size' = TestFileBytes(TEST_FILE_SIZES[a_idx + 1])
            /\ a_pc' = "upload"
            /\ UNCHANGED a_tests
       ELSE /\ a_size' = -1
            /\ a_pc' = "loop"
            /\ a_tests' = Append(a_tests, "no_file")
    /\ UNCHANGED << a_puts, generatorVars >>

\* upload_test_file: one content PUT of the whole file, whatever its size
ArchiveUpload(status) ==
    /\ a_pc = "upload"
    /\ a_puts' = Append(a_puts, [len |-> a_size, status |-> status])
    /\ a_pc' = IF status = EXC THEN "done"
               ELSE IF TestUploadOk(status) THEN "link"
               ELSE "loop"
    /\ a_tests' = IF status # EXC /\ ~TestUploadOk(status)
                  THEN Append(a_tests, "no_upload") ELSE a_tests
    /\ UNCHANGED << a_idx, a_size, generatorVars >>

\* main: the sharing link of the uploaded file, or the size is skipped
ArchiveLink(ok) ==
    /\ a_pc = "link"
    /\ a_pc' = IF ok THEN "download" ELSE "loop"
    /\ a_tests' = IF ok THEN a_tests ELSE Append(a_tests, "no_link")
    /\ UNCHANGED << a_idx, a_size, a_puts, generatorVars >>

\* main: the download link is verified, or the plain link is tried
ArchiveDownload(ok) ==
    /\ a_pc = "download"
    /\ a_pc' = IF ok THEN "loop" ELSE "fallback"
    /\ a_tests' = IF ok THEN Append(a_tests, "success") ELSE a_tests
    /\ UNCHANGED << a_idx, a_size, a_puts, generatorVars >>

\* main: the plain sharing link is verified or not
ArchiveFallback(ok) ==
    /\ a_pc = "fallback"
    /\ a_pc' = "loop"
    /\ a_tests' = Append(a_tests, IF ok THEN "partial" ELSE "failed")
    /\ UNCHANGED << a_idx, a_size, a_puts, generatorVars >>

\* main: the loop is over and the results are saved
ArchiveSave ==
    /\ a_pc = "loop"
    /\ a_idx >= Len(TEST_FILE_SIZES)
    /\ a_pc' = "done"
    /\ UNCHANGED << a_idx, a_size, a_puts, a_tests, generatorVars >>

\* verify_download_links.py has been started; the generator is not running
ArchiveInit ==
    /\ SecondIdle
    /\ ClientIdle
    /\ ManifestIdle
    /\ a_pc = "auth"
    /\ a_idx = 0
    /\ a_size = -1
    /\ a_puts = <<>>
    /\ a_tests = <<>>
    /\ pc = "done"
    /\ n_files = 0
    /\ dry_run = FALSE
    /\ file_idx = 0
    /\ remote = {}
    /\ next_id = 3
    /\ ext_count = 0
    /\ folder_path = <<>>
    /\ path_parts = <<>>
    /\ part_idx = 1
    /\ current_path = <<>>
    /\ current_id = ROOT
    /\ rreqs = <<>>
    /\ ext_at_call = 0
    /\ r_ret = FALSE
    /\ seen = [fp \in FolderPaths |-> {}]
    /\ folder_id = None
    /\ file_size = -1
    /\ disk_size = -1
    /\ chunk_size = 0
    /\ total_chunks = 0
    /\ chunk_num = 0
    /\ upload_url = NoUrl
    /\ reqs = <<>>
    /\ u_ret = FALSE
    /\ file_data = NoData
    /\ results = {}
    /\ saved = FALSE
    /\ sharing_link = NoLink

ArchiveNext ==
    \/ \E ok \in BOOLEAN : ArchiveAuth(ok)
    \/ \E ok \in BOOLEAN : ArchiveFolder(ok)
    \/ \E ok \in BOOLEAN : ArchiveCreateFile(ok)
    \/ \E st \in PutStatuses \cup {EXC} : ArchiveUpload(st)
    \/ \E ok \in BOOLEAN : ArchiveLink(ok)
    \/ \E ok \in BOOLEAN : ArchiveDownload(ok)
    \/ \E ok \in BOOLEAN : ArchiveFallback(ok)
    \/ ArchiveSave

ArchiveSpec == ArchiveInit /\ [][ArchiveNext]_vars


TypeOK ==
    /\ pc \in {"start", "auth", "loop", "resolve", "create", "upload",
               "direct", "session", "chunks", "link", "done"}
    /\ file_idx \in 0..n_files
    /\ chunk_num \in 0..total_chunks
    /\ disk_size \in {file_size, file_size - 1}
    /\ q_pc \in {"idle", "resolve", "create", "returned", "raised"}
    /\ q_idx \in 1..(Len(q_parts) + 1)
    /\ a_pc \in {"idle", "auth", "folder", "loop", "upload", "link",
                 "download", "fallback", "done"}
    /\ a_idx \in 0..Len(TEST_FILE_SIZES)
    /\ Len(a_puts) <= a_idx
    /\ Len(a_tests) <= a_idx
    /\ m_pc \in {"idle", "start", "loop", "done"}
    /\ m_idx \in 0..Len(m_files)
    /\ m_done \subseteq 1..m_idx

\* ================================================================ claims
\* the chunk PUTs of the current upload_file call, in the order sent
ChunkPuts == SelectSeq(reqs, LAMBDA r : r.kind = "PUT_chunk")

CountKind(kind) == Cardinality({ i \in 1..Len(reqs) : reqs[i].kind = kind })

RangeStart(r) == r.range[2]
RangeEnd(r) == r.range[3]
RangeTotal(r) == r.range[4]

\* C1: chunk k is PUT only after chunks 0..k-1 were PUT and answered 202;
\* the ranges sent are increasing, non-overlapping and contiguous, and the
\* next start offset is the previous end offset + 1 (0 for the first chunk).
C1_SequentialContiguous ==
    LET cp == ChunkPuts
    IN  /\ \A i \in 1..Len(cp) :
              /\ cp[i].idx = i - 1
              /\ RangeStart(cp[i]) <= RangeEnd(cp[i])
              /\ RangeStart(cp[i]) = IF i = 1 THEN 0 ELSE RangeEnd(cp[i - 1]) + 1
              /\ \A j \in 1..(i - 1) : cp[j].status = 202
        /\ (pc = "chunks" /\ chunk_num < total_chunks) =>
              /\ chunk_num = Len(cp)
              /\ StartByte(chunk_num, chunk_size) =
                    IF Len(cp) = 0 THEN 0 ELSE RangeEnd(cp[Len(cp)]) + 1

C1_Witness ==
    /\ Len(ChunkPuts) >= 3
    /\ ChunkPuts[3].idx = 2
    /\ RangeStart(ChunkPuts[3]) = 6553600

\* C2: a payload below 4,194,304 bytes takes the direct branch (one content
\* PUT, no session POST), a payload of 4,194,304 bytes or more the chunked
\* branch (a session POST, no content PUT).
C2_StrategyChoice ==
    /\ pc = "direct" => file_size < 4194304
    /\ pc = "session" => file_size >= 4194304
    /\ (u_ret /\ file_size >= 0) =>
          IF file_size < 4194304
          THEN CountKind("PUT_content") = 1 /\ CountKind("POST_session") = 0
          ELSE CountKind("POST_session") = 1 /\ CountKind("PUT_content") = 0

C2_Witness ==
    /\ u_ret
    /\ file_size = 4194304
    /\ CountKind("POST_session") = 1
    /\ CountKind("PUT_content") = 0

\* n is the ceiling of s / c
IsCeil(n, s, c) == n >= 0 /\ n * c >= s /\ (n - 1) * c < s

RECURSIVE SumLen(_)
SumLen(cp) == IF cp = <<>> THEN 0 ELSE Head(cp).len + SumLen(Tail(cp))

\* C3: for every payload size S and chunk size C > 0 the chunk loop computes
\* exactly ceil(S/C) descriptors, and their declared lengths sum to S.
C3_PartitionCount ==
    LET cp == ChunkPuts
    IN  /\ IsCeil(total_chunks, file_size, chunk_size)
        /\ Len(cp) <= total_chunks
        /\ Len(cp) = total_chunks =>
              /\ IsCeil(Len(cp), file_size, chunk_size)
              /\ SumLen(cp) = file_size

C3_Witness ==
    /\ file_size = 7
    /\ chunk_size = 3
    /\ Len(ChunkPuts) = 3
    /\ ChunkPuts[3].len = 1

\* C4: every descriptor has start = index * chunkSize,
\* end = min(start + chunkSize - 1, totalSize - 1), declared length
\* end - start + 1 >= 1, the one with the highest index ends at
\* totalSize - 1, and its Content-Range is bytes start-end/totalSize.
C4_Descriptor ==
    LET cp == ChunkPuts
    IN  \A i \in 1..Len(cp) :
          LET start == cp[i].idx * 3276800
              end == IF start + 3276800 - 1 < file_size - 1
                     THEN start + 3276800 - 1 ELSE file_size - 1
          IN  /\ cp[i].range = << "bytes", start, end, file_size >>
              /\ cp[i].len = end - start + 1
              /\ cp[i].len >= 1
              /\ cp[i].idx <= total_chunks - 1
              /\ cp[i].idx = total_chunks - 1 => end = file_size - 1

C4_Witness ==
    /\ file_size = 6553601
    /\ Len(ChunkPuts) = 3
    /\ ChunkPuts[3].range = << "bytes", 6553600, 6553600, 6553601 >>
    /\ ChunkPuts[3].len = 1

\* C5: a 200 or 201 answer to the PUT of a non-final chunk ends the loop at
\* once with success, the outcome being the descriptor of that response,
\* and no PUT is issued for a remaining chunk.
C5_EarlyCompletion ==
    LET cp == ChunkPuts
    IN  \A i \in 1..Len(cp) :
          (cp[i].status \in {200, 201} /\ cp[i].idx < total_chunks - 1) =>
              /\ i = Len(cp)
              /\ u_ret
              /\ pc # "chunks"
              /\ file_data = cp[i].body
              /\ file_data \in Descriptors

C5_Witness ==
    /\ Len(ChunkPuts) = 2
    /\ total_chunks = 4
    /\ ChunkPuts[2].status = 201
    /\ file_data = "f2"

AllAccepted ==
    /\ total_chunks > 0
    /\ Len(ChunkPuts) = total_chunks
    /\ \A i \in 1..Len(ChunkPuts) : ChunkPuts[i].status = 202

\* C6: when every chunk PUT of a session, the last one included, is
\* answered 202, the upload returns the failure value and never a
\* descriptor.
C6_ExhaustionFails ==
    AllAccepted => file_data = NoData /\ pc # "link"

C6_Witness == AllAccepted /\ u_ret /\ total_chunks = 3

\* C7: a chunk PUT answered with a status other than 200, 201 or 202 fails
\* the whole upload: that chunk is not sent again, no later chunk is sent,
\* and the outcome is the failure value.
C7_ChunkErrorFatal ==
    LET cp == ChunkPuts
    IN  \A i \in 1..Len(cp) :
          cp[i].status \notin {200, 201, 202} =>
              /\ i = Len(cp)
              /\ \A j \in 1..Len(cp) : cp[j].idx = cp[i].idx => j = i
              /\ u_ret
              /\ pc # "chunks"
              /\ file_data = NoData

C7_Witness ==
    /\ Len(ChunkPuts) = 2
    /\ total_chunks = 3
    /\ ChunkPuts[2].status = 500
    /\ u_ret

\* C8: nothing is retried: within one upload_file call each chunk index is
\* PUT at most once, the session is opened at most once and the direct
\* content PUT is issued at most once.
C8_NoRetry ==
    /\ CountKind("POST_session") <= 1
    /\ CountKind("PUT_content") <= 1
    /\ \A i, j \in 1..Len(ChunkPuts) :
          ChunkPuts[i].idx = ChunkPuts[j].idx => i = j
    /\ Len(ChunkPuts) <= total_chunks

C8_Witness ==
    /\ u_ret
    /\ CountKind("POST_session") = 1
    /\ Len(ChunkPuts) = 3
    /\ ChunkPuts[3].status = 500

\* the session-open requests whose response carries no session URL
UrlLess ==
    { i \in 1..Len(reqs) :
        reqs[i].kind = "POST_session" /\ reqs[i].body \in {NoUrl, ""} }

\* C9: a session-open response without a session URL (absent or empty)
\* ends the upload with the failure value, and no chunk is ever PUT.
C9_NoSessionUrl ==
    UrlLess # {} => /\ Len(ChunkPuts) = 0
                    /\ u_ret
                    /\ file_data = NoData
                    /\ pc # "chunks"

C9_Witness ==
    /\ \E i \in UrlLess : reqs[i].status = 200 /\ reqs[i].body = ""
    /\ u_ret

\* an ensure_folder_path call has just returned, no folder having been
\* created by another client since it began, and it is not the first such
\* call on its path
SecondResolution ==
    /\ r_ret
    /\ ext_at_call = ext_count
    /\ seen[folder_path] # {}

Scenario10MiB ==
    /\ file_size = ScenarioSize
    /\ chunk_size = CHUNK_SIZE
    /\ Len(ChunkPuts) = 4
    /\ \A i \in 1..3 : ChunkPuts[i].status = 202
    /\ ChunkPuts[4].status = 201

\* C16 as stated: the four chunks have 3,276,800 / 3,276,800 / 3,276,800 /
\* 66,600 bytes and the outcome is the descriptor of the 4th response.
C16_Original ==
    Scenario10MiB =>
        /\ \A i \in 1..3 : ChunkPuts[i].len = 3276800
        /\ ChunkPuts[4].len = 66600
        /\ u_ret
        /\ file_data = ChunkPuts[4].body
        /\ file_data \in Descriptors

\* C16: a payload of 10,485,760 bytes with chunk size 3,276,800 is sent as
\* 4 chunks of 3,276,800 / 3,276,800 / 3,276,800 / 655,360 bytes, and with
\* the answers 202, 202, 202, 201 the outcome is success with the
\* descriptor of the 4th response.
C16_Scenario ==
    /\ (file_size = ScenarioSize /\ chunk_size = CHUNK_SIZE) => total_chunks = 4
    /\ Scenario10MiB =>
          /\ \A i \in 1..3 : ChunkPuts[i].len = 3276800
          /\ ChunkPuts[4].len = 655360
          /\ SumLen(ChunkPuts) = 10485760
          /\ ChunkPuts[4].range = << "bytes", 9830400, 10485759, 10485760 >>
          /\ u_ret
          /\ pc # "chunks"
          /\ file_data = ChunkPuts[4].body
          /\ file_data \in Descriptors

C16_Witness ==
    /\ Scenario10MiB
    /\ u_ret
    /\ file_data = "f1"

\* ------------------------------------------------- claims on the resolver
\* the non-empty parts of a split path, in order
NonEmptyParts(parts) == SelectSeq(parts, LAMBDA p : p # <<>>)

\* the lookup GETs of a request log, in order
Lookups(log) == SelectSeq(log, LAMBDA r : r.kind = "GET")

\* the path that names the folder reached through `parts`
RECURSIVE JoinAll(_)
JoinAll(parts) ==
    IF parts = <<>> THEN <<>>
    ELSE IF Len(parts) = 1 THEN parts[1]
    ELSE JoinAll(SubSeq(parts, 1, Len(parts) - 1)) \o <<"/">> \o parts[Len(parts)]

\* a request whose answer makes ensure_folder_path give up
Aborting(r) ==
    \/ r.kind = "GET" /\ r.status \notin {200, 404}
    \/ r.kind = "POST" /\ r.status # 201

\* the id resolved for the segment before request i of a log
RECURSIVE PrevId(_, _)
PrevId(log, i) ==
    IF i = 1 THEN ROOT
    ELSE IF ~Aborting(log[i - 1]) /\ log[i - 1].status # 404 THEN log[i - 1].got
    ELSE PrevId(log, i - 1)

\* C11: when the lookup of a segment is answered 404 and the create call
\* for it is answered with a naming conflict (409), the resolution still
\* succeeds: a create answered 409 is never the request on which a
\* resolution returns the failure value.
C11_ConflictAdopted ==
    \A i \in 1..Len(rreqs) :
        (rreqs[i].kind = "POST" /\ rreqs[i].status = 409) =>
            ~(r_ret /\ folder_id = None /\ i = Len(rreqs))

\* C13: every create follows a lookup of the same segment answered 404 and
\* is a child of the id resolved for the previous segment; a lookup
\* answered 200 is followed by the next lookup, never by a create, and
\* that lookup starts from the id returned; a lookup answered 404 is
\* followed by exactly one create; a lookup answered with another status
\* and a create not answered 201 are the last request of the call, which
\* returns the failure value (or is ended by the exception).
C13_LookupThenCreate ==
    /\ rreqs # <<>> => rreqs[1].kind = "GET"
    /\ \A i \in 1..Len(rreqs) :
        LET r == rreqs[i] IN
        /\ r.kind = "POST" =>
              /\ i > 1
              /\ rreqs[i - 1].kind = "GET"
              /\ rreqs[i - 1].status = 404
              /\ rreqs[i - 1].name = r.name
              /\ r.parent = PrevId(rreqs, i)
        /\ (r.kind = "GET" /\ r.status = 200 /\ i < Len(rreqs)) =>
              /\ rreqs[i + 1].kind = "GET"
              /\ rreqs[i + 1].parent = r.got
        /\ (r.kind = "GET" /\ r.status = 200 /\ i = Len(rreqs)) =>
              current_id = r.got
        /\ (r.kind = "GET" /\ r.status = 404 /\ i < Len(rreqs)) =>
              rreqs[i + 1].kind = "POST"
        /\ (r.kind = "POST" /\ i < Len(rreqs)) => rreqs[i + 1].kind = "GET"
        /\ Aborting(r) =>
              /\ i = Len(rreqs)
              /\ r.status = EXC => pc = "done" /\ ~r_ret
              /\ r.status # EXC => r_ret /\ folder_id = None /\ pc = "loop"

\* a lookup, a create and then a lookup that fails: the call has given up
C13_Witness ==
    /\ r_ret
    /\ folder_id = None
    /\ Len(rreqs) = 3
    /\ rreqs[1].kind = "GET" /\ rreqs[1].status = 404
    /\ rreqs[2].kind = "POST" /\ rreqs[2].status = 201
    /\ rreqs[3].kind = "GET" /\ rreqs[3].status = 500

\* C14 as stated: a path of one segment is resolved to the root without
\* any request.
C14_Original ==
    Len(NonEmptyParts(path_parts)) = 1 =>
        /\ rreqs = <<>>
        /\ r_ret => folder_id = ROOT

\* C14: a path without any non-empty segment is resolved to the root
\* without any request; a path of one segment is resolved with one lookup
\* of that segment.
C14_RootDirect ==
    /\ NonEmptyParts(path_parts) = <<>> =>
          /\ rreqs = <<>>
          /\ r_ret => folder_id = ROOT
    /\ (Len(NonEmptyParts(path_parts)) = 1 /\ r_ret) =>
          /\ Len(Lookups(rreqs)) = 1
          /\ rreqs[1].kind = "GET"
          /\ rreqs[1].path = NonEmptyParts(path_parts)[1]

\* the path "/" has been resolved
C14_Witness ==
    /\ r_ret
    /\ folder_path = <<"/">>
    /\ folder_id = ROOT
    /\ rreqs = <<>>

\* C15: the lookups are those of the non-empty parts, in order, each for
\* the path of the parts up to it; a create is for the part just looked
\* up; a call fails only on a request that was answered with an error;
\* and a call that returns an id returns the id that any spelling of the
\* same segments was resolved to.
C15_EmptySkipped ==
    LET ne == NonEmptyParts(path_parts)
        gets == Lookups(rreqs)
    IN  /\ Len(gets) <= Len(ne)
        /\ \A k \in 1..Len(gets) :
              /\ gets[k].name = ne[k]
              /\ gets[k].path = JoinAll(SubSeq(ne, 1, k))
        /\ \A i \in 1..Len(rreqs) :
              rreqs[i].kind = "POST" =>
                  /\ rreqs[i].name = rreqs[i - 1].name
                  /\ rreqs[i].path = rreqs[i - 1].path
        /\ (r_ret /\ folder_id = None) =>
              rreqs # <<>> /\ Aborting(rreqs[Len(rreqs)])
        /\ (r_ret /\ folder_id # None) => Len(gets) = Len(ne)
        /\ (r_ret /\ folder_id # None /\ ext_at_call = ext_count) =>
              \A fp \in FolderPaths :
                  NonEmptyParts(PathParts(fp)) = ne =>
                      \A r \in seen[fp] \ {None} : folder_id = r

\* "/a//b/" has been resolved after "a/b" was
C15_Witness ==
    /\ r_ret
    /\ folder_path = <<"/", "a", "/", "/", "b", "/">>
    /\ folder_id \notin {None, ROOT}
    /\ ext_at_call = ext_count
    /\ Len(rreqs) = 2
    /\ seen[<<"a", "/", "b">>] = {folder_id}

\* the path a/b where a is found, a/b is not and the create is accepted
ScenarioAB ==
    /\ r_ret
    /\ NonEmptyParts(path_parts) = << <<"a">>, <<"b">> >>
    /\ ext_at_call = ext_count
    /\ Len(rreqs) >= 3
    /\ rreqs[1].status = 200
    /\ rreqs[2].status = 404
    /\ rreqs[3].status = 201

\* C17: for the path a/b where a exists and b does not, the resolver
\* issues one lookup of a, one lookup of a/b, one create of b as a child
\* of the id of a, and returns the id of the b that was created.
C17_Scenario ==
    ScenarioAB =>
        /\ Len(rreqs) = 3
        /\ rreqs[1].kind = "GET" /\ rreqs[1].path = <<"a">>
        /\ rreqs[2].kind = "GET" /\ rreqs[2].path = <<"a", "/", "b">>
        /\ rreqs[3].kind = "POST"
        /\ rreqs[3].parent = rreqs[1].got
        /\ rreqs[3].name = <<"b">>
        /\ folder_id = rreqs[3].got
        /\ folder_id = next_id - 1
        /\ NodesAt(<<"a", "/", "b">>) =
              { [path |-> <<"a", "/", "b">>, id |-> folder_id] }

C17_Witness ==
    /\ ScenarioAB
    /\ folder_path = <<"a", "/", "b">>
    /\ folder_id \notin {None, ROOT}

\* ------------------------------------------------------- claims on main
\* C18: a failure while one file is processed, a transport exception
\* included, never keeps the remaining files from being processed, and the
\* outcomes gathered are persisted: a run that has begun a file ends only
\* after it has begun every file and has written the manifest.
C18_BatchContinues ==
    (pc = "done" /\ file_idx >= 1) => (file_idx = n_files /\ saved)

\* C20: every chunk PUT carries as many bytes as it declares; a chunk for
\* which fewer bytes were read is never sent.
C20_FullChunks ==
    \A i \in 1..Len(reqs) :
        reqs[i].kind = "PUT_chunk" => reqs[i].sent = reqs[i].len


\* ---------------------------------------- claims on concurrent resolution
\* the answers of a request log that carry an id
Answers(log) == { log[i] : i \in { j \in 1..Len(log) : log[j].got # None } }

\* C12: when two calls resolve paths that share a segment and their
\* requests interleave, no folder is replaced and no sibling of the same
\* name is created: a call that returns returns an id, the two calls hold
\* the same id for every path both have resolved, and every id a call was
\* given still denotes the folder at that path.
C12_RaceSafe ==
    /\ r_ret => folder_id # None
    /\ q_pc = "returned" => q_result # None
    /\ \A x \in Answers(rreqs) : \A y \in Answers(q_reqs) :
          x.path = y.path => x.got = y.got
    /\ \A x \in Answers(rreqs) \cup Answers(q_reqs) :
          [path |-> x.path, id |-> x.got] \in remote
    /\ \A m, n \in remote : m.path = n.path => m = n

\* ------------------------------------------ claims on the archived script
\* C19: no upload routine issues a direct content PUT with a payload of
\* 4,194,304 bytes or more: every content PUT of verify_download_links.py
\* is below the threshold.
C19_HardBoundary ==
    \A i \in 1..Len(a_puts) : a_puts[i].len < THRESHOLD


\* ------------------------------------------ claims on upload_file and main
\* the content PUTs (direct or chunk) of the current call answered 200 or 201
OkPuts ==
    { i \in 1..Len(reqs) : /\ reqs[i].kind \in {"PUT_content", "PUT_chunk"}
                           /\ reqs[i].status \in {200, 201} }

\* C21: a direct upload issues exactly one PUT of the whole buffer to the
\* content endpoint of the folder and the file name; it returns the
\* descriptor of the answer if and only if the answer is 200 or 201, and
\* any other status gives the failure value with no second PUT.
C21_DirectUpload ==
    (file_size >= 0 /\ file_size < 4194304) =>
        /\ Len(reqs) <= 1
        /\ \A i \in 1..Len(reqs) :
              /\ reqs[i].kind = "PUT_content"
              /\ reqs[i].url = "content"
              /\ reqs[i].folder = folder_id
              /\ reqs[i].name = file_idx
              /\ reqs[i].len = file_size
              /\ reqs[i].sent = file_size
        /\ u_ret =>
              /\ Len(reqs) = 1
              /\ reqs[1].status \in {200, 201} =>
                    /\ file_data = reqs[1].body
                    /\ file_data \in Descriptors
                    /\ pc = "link"
              /\ reqs[1].status \notin {200, 201} =>
                    /\ file_data = NoData
                    /\ pc = "loop"
        /\ (~u_ret /\ pc # "done") => (pc = "direct" /\ reqs = <<>>)

C21_Witness ==
    /\ file_size = 4194303
    /\ u_ret
    /\ Len(reqs) = 1
    /\ reqs[1].status = 201
    /\ file_data = "f2"
    /\ pc = "link"

\* C22: when the transport raises during the session open or a chunk PUT,
\* that request is the last one of the call (no further chunk, no retry)
\* and upload_file has returned the failure value.
C22_ExceptionAborts ==
    \A i \in 1..Len(reqs) :
        (reqs[i].kind \in {"POST_session", "PUT_chunk"} /\ reqs[i].status = EXC) =>
            /\ i = Len(reqs)
            /\ u_ret
            /\ file_data = NoData
            /\ pc = "loop"

C22_Witness ==
    /\ Len(reqs) = 3
    /\ reqs[2].kind = "PUT_chunk" /\ reqs[2].status = 202
    /\ reqs[3].kind = "PUT_chunk" /\ reqs[3].status = EXC
    /\ u_ret
    /\ total_chunks >= 3

\* C23: every file the loop has processed has a record in the results,
\* whether it succeeded or failed.
C23_EveryFileRecorded ==
    (pc = "loop" \/ saved) => \A i \in 1..file_idx : i \in results

\* C25: an upload request is issued only when the resolution returned an
\* id, and for that folder; the sharing link is asked for only when the
\* upload returned a descriptor; a file is recorded only when all three
\* steps succeeded; a step that failed is followed by no later step of the
\* file.
C25_StepOrder ==
    /\ pc \in {"upload", "direct", "session", "chunks", "link"} => folder_id # None
    /\ reqs # <<>> =>
          /\ folder_id # None
          /\ \A i \in 1..Len(reqs) :
                reqs[i].kind \in {"PUT_content", "POST_session"} =>
                    reqs[i].folder = folder_id /\ reqs[i].name = file_idx
    /\ pc = "link" => (u_ret /\ file_data \in Descriptors)
    /\ sharing_link # NoLink => (u_ret /\ file_data \in Descriptors)
    /\ results \subseteq 1..file_idx
    /\ (file_idx >= 1 /\ file_idx \in results) =>
          /\ folder_id # None
          /\ file_data \in Descriptors
          /\ sharing_link # NoLink
    /\ (r_ret /\ folder_id = None) =>
          /\ reqs = <<>>
          /\ ~u_ret
          /\ sharing_link = NoLink
          /\ file_idx \notin results
          /\ pc = "loop"
    /\ (u_ret /\ file_data = NoData) =>
          /\ sharing_link = NoLink
          /\ file_idx \notin results
          /\ pc \in {"loop", "done"}

C25_Witness ==
    /\ pc = "loop"
    /\ file_idx = 2
    /\ results = {2}
    /\ sharing_link = "dl"
    /\ file_data = "f1"

\* C26: every chunk PUT goes to the URL that the answer to the session
\* POST carried, the same for the whole session, and never to an endpoint
\* of the API.
C26_SessionUrl ==
    \A i \in 1..Len(reqs) :
        reqs[i].kind = "PUT_chunk" =>
            /\ reqs[1].kind = "POST_session"
            /\ reqs[1].status = 200
            /\ reqs[i].url = reqs[1].body
            /\ reqs[i].url = upload_url
            /\ reqs[i].url \notin {"content", "createUploadSession", "", NoUrl}

C26_Witness ==
    /\ Len(ChunkPuts) = 3
    /\ \A i \in 1..3 : ChunkPuts[i].url = "https://up/s1"
    /\ reqs[1].body = "https://up/s1"

\* C28: upload_file returns a descriptor if and only if a content PUT of
\* the call was answered 200 or 201, and the descriptor is that answer's;
\* otherwise, an exception included, it returns the failure value; nothing
\* is returned from a 202 answer.
C28_DescriptorIff ==
    /\ pc = "link" =>
          /\ u_ret
          /\ file_data \in Descriptors
          /\ OkPuts = {Len(reqs)}
          /\ file_data = reqs[Len(reqs)].body
    /\ (u_ret /\ file_data = NoData) => OkPuts = {}
    /\ ~u_ret => OkPuts = {}
    /\ u_ret => (file_data = NoData \/ file_data \in Descriptors)
    /\ \A i \in 1..Len(reqs) :
          /\ reqs[i].status = 202 => reqs[i].body # file_data
          /\ reqs[i].status = EXC => (u_ret /\ file_data = NoData)

C28_Witness ==
    /\ pc = "link"
    /\ Len(reqs) = 3
    /\ reqs[2].status = 202
    /\ reqs[3].status = 200
    /\ file_data = "f1"

\* C30: the chunk size is below the threshold, so a session always has at
\* least 2 chunks and its first chunk never ends at the last byte.
C30_AtLeastTwoChunks ==
    /\ CHUNK_SIZE < THRESHOLD
    /\ pc = "chunks" => (total_chunks >= 2 /\ file_size >= 4194304)
    /\ \A i \in 1..Len(reqs) :
          /\ reqs[i].kind = "POST_session" => file_size >= 4194304
          /\ (reqs[i].kind = "PUT_chunk" /\ reqs[i].idx = 0) =>
                /\ RangeEnd(reqs[i]) < RangeTotal(reqs[i]) - 1
                /\ reqs[i].idx < total_chunks - 1

C30_Witness ==
    /\ pc = "chunks"
    /\ file_size = 4194304
    /\ total_chunks = 2
    /\ Len(ChunkPuts) = 1
    /\ ChunkPuts[1].range = << "bytes", 0, 3276799, 4194304 >>


\* the requests of a call stay within one session POST and
\* ceil(file_size / 3276800) chunk PUTs
C29_Bounded ==
    /\ CountKind("POST_session") <= 1
    /\ CountKind("PUT_content") <= 1
    /\ Len(ChunkPuts) >= 1 =>
          /\ CountKind("POST_session") = 1
          /\ (Len(ChunkPuts) - 1) * 3276800 < file_size
    /\ Len(reqs) = CountKind("POST_session") + CountKind("PUT_content")
                      + Len(ChunkPuts)

\* C29: upload_file always returns, with a descriptor or the failure
\* value, and before that a chunked upload of S bytes issues at most one
\* session POST and at most ceil(S / 3,276,800) chunk PUTs, whatever the
\* answers are.
C29_Terminates ==
    /\ []C29_Bounded
    /\ <>(u_ret /\ pc \in {"loop", "link"})

\* a call that used every chunk it may send
C29_Witness ==
    /\ u_ret
    /\ file_size = 9830401
    /\ total_chunks = 4
    /\ Len(ChunkPuts) = 4
    /\ CountKind("POST_session") = 1


\* ------------------------------------------------- claims on GraphClient
\* C27: put never changes the headers of the client: after any calls they
\* are the Authorization and Content-Type: application/json entries of the
\* constructor, every get and post carries exactly these, and every put
\* carries them with its own overrides only.
C27_BaseHeadersKept ==
    /\ c_headers = BaseHeaders
    /\ DOMAIN c_headers = {"Authorization", "Content-Type"}
    /\ c_headers["Content-Type"] = "application/json"
    /\ \A i \in 1..Len(c_log) :
          /\ c_log[i].method \in {"GET", "POST"} => c_log[i].headers = BaseHeaders
          /\ (c_log[i].method = "PUT" /\ c_log[i].to = "api") =>
                c_log[i].headers =
                    PutHeaders(BaseHeaders, c_log[i].given, c_log[i].content)

\* a put of binary content with its own Content-Type, then a put of binary
\* content without headers, then a get
C27_Witness ==
    /\ Len(c_log) = 3
    /\ c_log[1].method = "PUT"
    /\ "Content-Type" \in DOMAIN c_log[1].headers
    /\ c_log[1].headers["Content-Type"] = "application/octet-stream"
    /\ c_log[2].method = "PUT"
    /\ c_log[2].content
    /\ "Content-Type" \notin DOMAIN c_log[2].headers
    /\ c_log[3].method = "GET"
    /\ c_log[3].headers = BaseHeaders


\* ------------------------------------------------ claims on two workers
\* a request of ensure_folder_path as it is sent: a GET names a path, a
\* POST a parent id and the name of the child
SentResolve(r) ==
    IF r.kind = "GET"
    THEN [kind |-> "GET", path |-> r.path, parent |-> None, name |-> r.name]
    ELSE [kind |-> "POST", path |-> <<>>, parent |-> r.parent, name |-> r.name]

\* ensure_folder_path run alone on the answers `resp`: the requests it
\* sends for them, whether it has ended and what it returns
RECURSIVE AloneResolve(_, _, _, _, _, _, _)
AloneResolve(parts, idx, cpath, cid, creating, resp, acc) ==
    IF idx > Len(parts)
    THEN [log |-> acc, ended |-> TRUE, raised |-> FALSE, result |-> cid]
    ELSE IF ~creating /\ parts[idx] = <<>>
    THEN AloneResolve(parts, idx + 1, cpath, cid, FALSE, resp, acc)
    ELSE IF resp = <<>>
    THEN [log |-> acc, ended |-> FALSE, raised |-> FALSE, result |-> None]
    ELSE
      LET part == parts[idx]
          np == IF creating THEN cpath
                ELSE IF cpath # <<>> THEN cpath \o <<"/">> \o part ELSE part
          rq == IF creating
                THEN [kind |-> "POST", path |-> <<>>, parent |-> cid, name |-> part]
                ELSE [kind |-> "GET", path |-> np, parent |-> None, name |-> part]
          a == Head(resp)
          log == Append(acc, rq)
      IN  IF a.status = EXC
          THEN [log |-> log, ended |-> TRUE, raised |-> TRUE, result |-> None]
          ELSE IF ~creating /\ a.status = 200
          THEN AloneResolve(parts, idx + 1, np, a.got, FALSE, Tail(resp), log)
          ELSE IF ~creating /\ a.status = 404
          THEN AloneResolve(parts, idx, np, cid, TRUE, Tail(resp), log)
          ELSE IF creating /\ a.status = 201
          THEN AloneResolve(parts, idx + 1, np, a.got, FALSE, Tail(resp), log)
          ELSE [log |-> log, ended |-> TRUE, raised |-> FALSE, result |-> None]

\* the answers a resolver log holds, and the run alone on them
ResolveAlone(parts, log) ==
    AloneResolve(parts, 1, <<>>, ROOT, FALSE,
                 [i \in 1..Len(log) |-> [status |-> log[i].status,
                                         got |-> log[i].got]], <<>>)

\* a request of upload_file as it is sent
SentUpload(r) ==
    [kind |-> r.kind, url |-> r.url, folder |-> r.folder, name |-> r.name,
     idx |-> r.idx, range |-> r.range, len |-> r.len]

\* the chunk loop run alone on the answers `resp`
RECURSIVE AloneChunks(_, _, _, _, _)
AloneChunks(size, url, k, resp, acc) ==
    IF k * 3276800 >= size
    THEN [log |-> acc, ended |-> TRUE, result |-> NoData]
    ELSE IF resp = <<>>
    THEN [log |-> acc, ended |-> FALSE, result |-> NoData]
    ELSE
      LET first == k * 3276800
          last == IF first + 3276799 < size - 1 THEN first + 3276799 ELSE size - 1
          rq == [kind |-> "PUT_chunk", url |-> url, folder |-> None, name |-> 0,
                 idx |-> k, range |-> << "bytes", first, last, size >>,
                 len |-> last - first + 1]
          a == Head(resp)
          log == Append(acc, rq)
      IN  IF a.status = 202
          THEN AloneChunks(size, url, k + 1, Tail(resp), log)
          ELSE IF a.status \in {200, 201}
          THEN [log |-> log, ended |-> TRUE, result |-> a.body]
          ELSE [log |-> log, ended |-> TRUE, result |-> NoData]

\* upload_file run alone on the answers `resp`
AloneUpload(size, folder, name, resp) ==
    IF resp = <<>>
    THEN [log |-> <<>>, ended |-> FALSE, result |-> NoData]
    ELSE
      LET a == Head(resp) IN
      IF size < 4194304
      THEN [log |-> << [kind |-> "PUT_content", url |-> "content",
                        folder |-> folder, name |-> name, idx |-> 0,
                        range |-> <<>>, len |-> size] >>,
            ended |-> TRUE,
            result |-> IF a.status \in {200, 201} THEN a.body ELSE NoData]
      ELSE
        LET rq == [kind |-> "POST_session", url |-> "createUploadSession",
                   folder |-> folder, name |-> name, idx |-> 0,
                   range |-> <<>>, len |-> 0]
        IN  IF a.status # 200 \/ a.body \in {"", NoUrl}
            THEN [log |-> << rq >>, ended |-> TRUE, result |-> NoData]
            ELSE AloneChunks(size, a.body, 0, Tail(resp), << rq >>)

\* the answers an upload log holds, and the run alone on them
UploadAlone ==
    AloneUpload(file_size, folder_id, file_idx,
                [i \in 1..Len(reqs) |-> [status |-> reqs[i].status,
                                         body |-> reqs[i].body]])

CreatesAfter(log, i) ==
    IF i < Len(log) /\ log[i + 1].kind = "POST" THEN 1 ELSE 0

\* C31: one ensure_folder_path call looks a path up at most once, so it
\* issues at most one lookup per non-empty segment and no more lookups
\* than the path has non-empty segments; every create directly follows the
\* lookup of its own segment, which was answered 404, and no segment gets
\* a second create; and once every non-empty segment has been settled the
\* call has nothing left to do but return.
C31_OnePerSegment ==
    LET ne == NonEmptyParts(path_parts)
        gets == Lookups(rreqs)
    IN  /\ Len(gets) <= Len(ne)
        /\ Creates(rreqs) <= Len(gets)
        /\ Len(rreqs) <= 2 * Len(ne)
        /\ \A i, j \in 1..Len(rreqs) :
              (i < j /\ rreqs[i].kind = "GET" /\ rreqs[j].kind = "GET") =>
                  /\ rreqs[i].path # rreqs[j].path
                  /\ Len(rreqs[i].path) < Len(rreqs[j].path)
        /\ \A i \in 1..Len(rreqs) :
              /\ rreqs[i].kind = "POST" =>
                    /\ i > 1
                    /\ rreqs[i - 1].kind = "GET"
                    /\ rreqs[i - 1].status = 404
                    /\ rreqs[i - 1].name = rreqs[i].name
              /\ rreqs[i].kind = "GET" =>
                    (rreqs[i].status # 404 => CreatesAfter(rreqs, i) = 0)
        /\ (pc = "resolve" /\ Len(gets) = Len(ne)) =>
              \A k \in part_idx..Len(path_parts) : path_parts[k] = <<>>

\* "/a//b/" has been resolved with two lookups and two creates
C31_Witness ==
    /\ r_ret
    /\ folder_path = <<"/", "a", "/", "/", "b", "/">>
    /\ folder_id \notin {None, ROOT}
    /\ Len(Lookups(rreqs)) = 2
    /\ Creates(rreqs) = 2

\* ------------------------------------------ claims on the upload session
\* the session-open requests answered with a status other than 200
Rejected ==
    { i \in 1..Len(reqs) :
        reqs[i].kind = "POST_session" /\ reqs[i].status \notin {200, EXC} }

\* C32: a session-open response with a status other than 200 ends the
\* upload with the failure value and no chunk is PUT, whether or not the
\* response carries an upload URL.
C32_SessionRejected ==
    Rejected # {} =>
        /\ Len(reqs) = 1
        /\ CountKind("PUT_chunk") = 0
        /\ u_ret
        /\ file_data = NoData
        /\ upload_url = NoUrl
        /\ pc = "loop"

\* a session answered 201 with an upload URL has ended the upload
C32_Witness ==
    /\ \E i \in Rejected : reqs[i].status = 201 /\ reqs[i].body = "https://up/s1"
    /\ u_ret
    /\ file_data = NoData


\* ------------------------------------------------ claims on the manifest
\* C33: the manifest that main writes holds one entry per file whose
\* three steps succeeded: as many entries as there are such files, and
\* under the key of each of them the entry of that file.
C33_OneEntryPerFile ==
    m_saved =>
        /\ Cardinality(DOMAIN m_out) = Cardinality(m_done)
        /\ \A i \in m_done :
              /\ Key(m_files[i]) \in DOMAIN m_out
              /\ m_out[Key(m_files[i])].filename = m_files[i].relative_path

\* ------------------------------------------------- claims on the early exit
\* C34: in dry-run mode, and when no simulation file was discovered, main
\* never authenticates, never enters the loop, sends no lookup, create,
\* upload or link request, leaves the remote store as it was and writes no
\* manifest.
C34_NothingDone ==
    (dry_run \/ n_files = 0) =>
        /\ pc \in {"start", "done"}
        /\ file_idx = 0
        /\ rreqs = <<>>
        /\ reqs = <<>>
        /\ ~r_ret /\ ~u_ret
        /\ sharing_link = NoLink
        /\ results = {}
        /\ ~saved
        /\ remote \in InitRemotes
        /\ next_id = 3

\* a dry run over a batch of files has ended
C34_Witness ==
    /\ dry_run
    /\ n_files >= 1
    /\ pc = "done"

\* ------------------------------------------- claims on the bearer token
\* C35: the bearer token never goes to the session URL: a chunk PUT
\* carries the headers Content-Length and Content-Range and no other, so
\* no Authorization header, while every request to the API base (get, post
\* and put of the client) carries the Authorization header with the token.
C35_TokenStaysHome ==
    \A i \in 1..Len(c_log) :
        LET r == c_log[i] IN
        /\ r.to = "session" =>
              /\ DOMAIN r.headers = {"Content-Length", "Content-Range"}
              /\ "Authorization" \notin DOMAIN r.headers
              /\ \A k \in DOMAIN r.headers :
                    r.headers[k] # BaseHeaders["Authorization"]
        /\ r.to = "api" =>
              /\ "Authorization" \in DOMAIN r.headers
              /\ r.headers["Authorization"] = BaseHeaders["Authorization"]

\* a direct PUT through the client and then a chunk PUT to the session
C35_Witness ==
    /\ Len(c_log) >= 2
    /\ c_log[1].to = "api" /\ c_log[1].method = "PUT" /\ c_log[1].content
    /\ c_log[2].to = "session"

\* ------------------------------------------------- claims on the rollback
\* C36: ensure_folder_path rolls nothing back: every folder that a create
\* of the call made is in the store at its path for as long as the call
\* and its result are there, in particular after the call has failed on a
\* later segment, and the call sends nothing but lookup GETs and create
\* POSTs.
C36_NoRollback ==
    /\ \A i \in 1..Len(rreqs) :
          /\ rreqs[i].kind \in {"GET", "POST"}
          /\ (rreqs[i].kind = "POST" /\ rreqs[i].status = 201) =>
                [path |-> rreqs[i].path, id |-> rreqs[i].got] \in remote
    /\ CreatedIds(rreqs) \subseteq { n.id : n \in remote }
    /\ Cardinality(remote) >= Cardinality(CreatedIds(rreqs))

\* the folder a was created, the lookup of a/b was answered with an error
\* and the call has failed: a is still there
C36_Witness ==
    /\ r_ret
    /\ folder_id = None
    /\ Len(rreqs) = 3
    /\ rreqs[2].kind = "POST" /\ rreqs[2].status = 201 /\ rreqs[2].name = <<"a">>
    /\ rreqs[3].kind = "GET" /\ rreqs[3].status = 500
    /\ NodesAt(<<"a">>) = { [path |-> <<"a">>, id |-> rreqs[2].got] }

\* ------------------------------------------- claims on the chunk lengths
\* C37: every chunk but the last of a session declares a length of
\* exactly 3,276,800 bytes, which is a multiple of 327,680 (320 KiB); a
\* declared length that is not a multiple of 327,680 is that of the last
\* chunk, the one that ends at the last byte of the file.
C37_ChunkMultiple ==
    LET cp == ChunkPuts
    IN  /\ chunk_size # 0 => (chunk_size = 3276800 /\ chunk_size % 327680 = 0)
        /\ \A i \in 1..Len(cp) :
              /\ cp[i].idx < total_chunks - 1 =>
                    /\ cp[i].len = 3276800
                    /\ cp[i].len % 327680 = 0
                    /\ RangeEnd(cp[i]) < file_size - 1
              /\ cp[i].len % 327680 # 0 =>
                    /\ cp[i].idx = total_chunks - 1
                    /\ RangeEnd(cp[i]) = file_size - 1
                    /\ \A j \in 1..Len(cp) : cp[j].idx <= cp[i].idx

\* a file of 4 MiB: a whole chunk and a last chunk of 917,504 bytes
C37_Witness ==
    /\ file_size = 4194304
    /\ Len(ChunkPuts) = 2
    /\ ChunkPuts[1].len = 3276800
    /\ ChunkPuts[2].len = 917504
    /\ ChunkPuts[2].len % 327680 # 0

====
